---- MODULE Spec2Model ----
(***************************************************************************)
(* A model of iwt_cleaner/cleaner.py: NumberParser, ColumnClassifier and   *)
(* TableCleaner.                                                           *)
(*                                                                         *)
(* Text is a sequence of one-character strings, so that strip(), lower(),  *)
(* replace(), split() and the regular expressions of the source are        *)
(* computed character by character.  A cell of a table is                  *)
(*     <<"null">>        None / NaN (whatever pd.isna() accepts),          *)
(*     <<"str", text>>   a str object,                                     *)
(*     <<"num", m, e>>   the number m * 10^(-e), kept normalised,          *)
(*     <<"inf", neg>>    float("inf") / float("-inf").                     *)
(***************************************************************************)
EXTENDS Integers, Sequences, FiniteSets, TLC

VARIABLES
    df,               \* TableCleaner.df (self.df)
    caller_df,        \* the DataFrame object the caller handed to TableCleaner
    shared,           \* TRUE while self.df is still that very object
    config,           \* CleaningConfig (decimal/thousands also held by the parser)
    detected_format,  \* NumberParser._detected_format
    calls,            \* number of clean() calls made on the instance
    lastOp,           \* the operation that produced ret
    arg,              \* its argument
    ret,              \* its return value
    pc,               \* the stage a clean() call in progress has reached
    locals            \* the local variables of that call

vars == <<df, caller_df, shared, config, detected_format, calls, lastOp, arg, ret,
          pc, locals>>

None == <<"None">>
\* None for an Optional[str] separator
NoSep == "None"
Null == <<"null">>
Str(s) == <<"str", s>>

IsNull(c) == c[1] = "null"
IsStr(c) == c[1] = "str"
IsNum(c) == c[1] = "num"
\* a Python int held as an object: its sign and its decimal digits
PyInt(neg, digits) == <<"pyint", neg, digits>>
IsPyInt(c) == c[1] = "pyint"
\* an exception leaving the call
Raised(error) == <<"raise", error>>
IsRaised(c) == c[1] = "raise"

SetMin(S) == CHOOSE x \in S : \A y \in S : x <= y
SetMax(S) == CHOOSE x \in S : \A y \in S : x >= y
Abs(n) == IF n < 0 THEN -n ELSE n

RECURSIVE Pow10(_)
Pow10(e) == IF e = 0 THEN 1 ELSE 10 * Pow10(e - 1)

Repeat(x, n) == [i \in 1..n |-> x]

(***************************************************************************)
(* Characters and the str methods the source uses.                         *)
(***************************************************************************)
LowerAlpha ==
    <<"a", "b", "c", "d", "e", "f", "g", "h", "i", "j", "k", "l", "m",
      "n", "o", "p", "q", "r", "s", "t", "u", "v", "w", "x", "y", "z">>
UpperAlpha ==
    <<"A", "B", "C", "D", "E", "F", "G", "H", "I", "J", "K", "L", "M",
      "N", "O", "P", "Q", "R", "S", "T", "U", "V", "W", "X", "Y", "Z">>
DigitChars == <<"0", "1", "2", "3", "4", "5", "6", "7", "8", "9">>
Digits == {DigitChars[i] : i \in 1..Len(DigitChars)}
Whitespace == {" ", "\t", "\n"}

DigitVal(c) == (CHOOSE i \in 1..Len(DigitChars) : DigitChars[i] = c) - 1

UpperToLower ==
    [c \in {UpperAlpha[i] : i \in 1..Len(UpperAlpha)} |->
        LowerAlpha[CHOOSE i \in 1..Len(UpperAlpha) : UpperAlpha[i] = c]]

\* str.lower(), one character
LowerChar(c) == IF c \in DOMAIN UpperToLower THEN UpperToLower[c] ELSE c

\* str.lower()
Lower(s) == [i \in 1..Len(s) |-> LowerChar(s[i])]

\* str.strip()
Strip(s) ==
    LET keep == {i \in 1..Len(s) : s[i] \notin Whitespace}
    IN  IF keep = {} THEN <<>> ELSE SubSeq(s, SetMin(keep), SetMax(keep))

\* c in s, for a one-character c
Contains(s, c) == \E i \in 1..Len(s) : s[i] = c

\* s.replace(c, '')
Remove(s, c) == SelectSeq(s, LAMBDA x : x # c)

\* s.replace(c, d), one-character c and d
Replace(s, c, d) == [i \in 1..Len(s) |-> IF s[i] = c THEN d ELSE s[i]]

\* s.rfind(c): the last 0-based position of c, -1 when absent
RFind(s, c) ==
    IF Contains(s, c) THEN SetMax({i \in 1..Len(s) : s[i] = c}) - 1 ELSE -1

\* p in s, for a text p (substring search)
IsSubstring(p, s) ==
    \E i \in 0..(Len(s) - Len(p)) : \A j \in 1..Len(p) : s[i + j] = p[j]

\* \d* (\d+ when the text is not empty)
AllDigits(s) == \A i \in 1..Len(s) : s[i] \in Digits

\* Series.head(n)
HeadN(s, n) == SubSeq(s, 1, IF Len(s) < n THEN Len(s) ELSE n)

(***************************************************************************)
(* Numbers.  <<"num", m, e>> is m * 10^(-e) with e = 0 or m not a multiple *)
(* of 10, so that equal numbers are equal values (2000.00 = 2000).         *)
(***************************************************************************)
RECURSIVE Norm(_, _)
Norm(m, e) ==
    IF e > 0 /\ m % 10 = 0 THEN Norm(m \div 10, e - 1) ELSE <<"num", m, e>>

Neg(c) ==
    CASE c[1] = "num" -> <<"num", -c[2], c[3]>>
      [] c[1] = "inf" -> <<"inf", ~c[2]>>
      [] OTHER -> c

RECURSIVE DigitsToNat(_)
DigitsToNat(s) ==
    IF s = <<>> THEN 0
    ELSE 10 * DigitsToNat(SubSeq(s, 1, Len(s) - 1)) + DigitVal(s[Len(s)])

RECURSIVE NatDigits(_)
NatDigits(n) ==
    IF n < 10 THEN <<DigitChars[n + 1]>>
    ELSE NatDigits(n \div 10) \o <<DigitChars[(n % 10) + 1]>>

\* str(x) of a number: an int prints as "12", a float as "12.0" or "12.5"
ReprNum(c, asFloat) ==
    LET a == Abs(c[2])
        ip == a \div Pow10(c[3])
        fp == a % Pow10(c[3])
        fd == NatDigits(fp)
    IN  (IF c[2] < 0 THEN <<"-">> ELSE <<>>) \o NatDigits(ip) \o
        (IF c[3] = 0 THEN (IF asFloat THEN <<".", "0">> ELSE <<>>)
         ELSE <<".">> \o Repeat("0", c[3] - Len(fd)) \o fd)

\* astype(str) / str(val) of one non-null cell
AsStr(c, asFloat) == IF IsStr(c) THEN c[2] ELSE ReprNum(c, asFloat)

(***************************************************************************)
(* float(txt) on text without exponent and underscore: an optional sign,   *)
(* then digits with an optional point, or inf / infinity / nan.            *)
(* <<"err">> stands for ValueError.                                        *)
(***************************************************************************)
T_nan == <<"n", "a", "n">>
T_inf == <<"i", "n", "f">>
T_infinity == <<"i", "n", "f", "i", "n", "i", "t", "y">>

PyFloatUnsigned(b) ==
    LET points == {i \in 1..Len(b) : b[i] = "."}
    IN  IF Lower(b) = T_nan THEN Null
        ELSE IF Lower(b) \in {T_inf, T_infinity} THEN <<"inf", FALSE>>
        ELSE IF b = <<>> \/ Cardinality(points) > 1 THEN <<"err">>
        ELSE IF points = {}
             THEN IF AllDigits(b) THEN <<"num", DigitsToNat(b), 0>> ELSE <<"err">>
        ELSE LET p == CHOOSE i \in points : TRUE
                 ip == SubSeq(b, 1, p - 1)
                 fp == SubSeq(b, p + 1, Len(b))
             IN  IF AllDigits(ip) /\ AllDigits(fp) /\ Len(ip) + Len(fp) > 0
                 THEN Norm(DigitsToNat(ip \o fp), Len(fp))
                 ELSE <<"err">>

PyFloat(txt) ==
    LET s == Strip(txt)
    IN  IF s # <<>> /\ s[1] = "-" THEN Neg(PyFloatUnsigned(Tail(s)))
        ELSE IF s # <<>> /\ s[1] = "+" THEN PyFloatUnsigned(Tail(s))
        ELSE PyFloatUnsigned(s)

(***************************************************************************)
(* NumberParser                                                            *)
(***************************************************************************)
SampleCap == 100

CommaDecimal == <<",", ".">>
DotDecimal == <<".", ",">>

\* Series.dropna()
DropNa(vals) == SelectSeq(vals, LAMBDA c : ~IsNull(c))

\* is_numeric_dtype(series)
IsNumericDtype(dtype) == dtype \in {"float64", "int64"}

\* Series.astype(str), on values without nulls
AsTypeStr(vals, dtype) == [i \in 1..Len(vals) |-> AsStr(vals[i], dtype = "float64")]

\* re.match(r'^\d{1,3}(T\d{3})+D\d+$', v) for thousands T and decimal D
MatchGrouped(v, tsep, dsep) ==
    \E k \in 1..3 : \E g \in 1..Len(v) :
        /\ Len(v) >= k + 4 * g + 2
        /\ AllDigits(SubSeq(v, 1, k))
        /\ \A j \in 0..(g - 1) :
              /\ v[k + 4 * j + 1] = tsep
              /\ AllDigits(SubSeq(v, k + 4 * j + 2, k + 4 * j + 4))
        /\ v[k + 4 * g + 1] = dsep
        /\ AllDigits(SubSeq(v, k + 4 * g + 2, Len(v)))

\* re.match(r'^\d+D\d{1,2}$', v) for decimal D
MatchShort(v, dsep) ==
    \E p \in 2..(Len(v) - 1) :
        /\ v[p] = dsep
        /\ Len(v) - p <= 2
        /\ AllDigits(SubSeq(v, 1, p - 1))
        /\ AllDigits(SubSeq(v, p + 1, Len(v)))

\* the if/elif chain of the loop body: which counter one value increments
VoteOf(v) ==
    IF MatchGrouped(v, ".", ",") THEN "comma"
    ELSE IF MatchGrouped(v, ",", ".") THEN "dot"
    ELSE IF Contains(v, ",") /\ ~Contains(v, ".") /\ MatchShort(v, ",") THEN "comma"
    ELSE IF Contains(v, ".") /\ ~Contains(v, ",") /\ MatchShort(v, ".") THEN "dot"
    ELSE "none"

\* the loop over str_sample: how often the counter `kind` is incremented
CountVotes(str_sample, kind) ==
    Cardinality({i \in 1..Len(str_sample) : VoteOf(Strip(str_sample[i])) = kind})

\* sample.dropna().astype(str).head(100)
StrSample(series) == HeadN(AsTypeStr(DropNa(series.vals), series.dtype), SampleCap)

\* mutant of VotedFormat: a tie of the two counters goes to comma-decimal
VotedFormat_TieComma(series) ==
    LET comma_as_decimal == CountVotes(StrSample(series), "comma")
        dot_as_decimal == CountVotes(StrSample(series), "dot")
    IN  IF comma_as_decimal >= dot_as_decimal THEN CommaDecimal ELSE DotDecimal

\* the hypothesis a detection pass computes from the sample
VotedFormat(series) ==
    LET comma_as_decimal == CountVotes(StrSample(series), "comma")
        dot_as_decimal == CountVotes(StrSample(series), "dot")
    IN  IF comma_as_decimal > dot_as_decimal THEN CommaDecimal ELSE DotDecimal

\* mutant of DetectFormat: the stored hypothesis is not consulted
DetectFormat_NoMemo(detected, series) == VotedFormat(series)

\* detect_format: the value returned, which is also the value stored
DetectFormat(detected, series) ==
    IF detected # None THEN detected ELSE VotedFormat(series)

MissingWords ==
    { <<"n", "a">>, <<"n", "/", "a">>, <<"n", "u", "l", "l">>,
      <<"n", "o", "n", "e">>, <<"-">> }
StrippedChars == {"%", "€", "$", "£"} \cup Whitespace

\* mutant of ResolveSeparators: a lone comma is always a thousands separator
ResolveSeparators_CommaThousands(txt, decimal, thousands) ==
    IF decimal # NoSep /\ thousands # NoSep
    THEN LET t1 == Remove(txt, thousands)
         IN  IF decimal # "." THEN Replace(t1, decimal, ".") ELSE t1
    ELSE IF Contains(txt, ",") /\ Contains(txt, ".")
    THEN IF RFind(txt, ",") > RFind(txt, ".")
         THEN Replace(Remove(txt, "."), ",", ".")
         ELSE Remove(txt, ",")
    ELSE Remove(txt, ",")

\* lines 97-106: separator resolution of the cleaned text
ResolveSeparators(txt, decimal, thousands) ==
    IF decimal # NoSep /\ thousands # NoSep
    THEN LET t1 == Remove(txt, thousands)
         IN  IF decimal # "." THEN Replace(t1, decimal, ".") ELSE t1
    ELSE IF Contains(txt, ",") /\ Contains(txt, ".")
    THEN IF RFind(txt, ",") > RFind(txt, ".")
         THEN Replace(Remove(txt, "."), ",", ".")
         ELSE Remove(txt, ",")
    ELSE IF Contains(txt, ",")
    THEN LET commas == {i \in 1..Len(txt) : txt[i] = ","}
             last == Len(txt) - SetMax(commas)
         IN  IF Cardinality(commas) = 1 /\ last <= 3
             THEN Replace(txt, ",", ".")
             ELSE Remove(txt, ",")
    ELSE txt

\* digit strings without leading zeros, compared as numbers
RECURSIVE DigitsLess(_, _)
DigitsLess(a, b) ==
    IF Len(a) # Len(b) THEN Len(a) < Len(b)
    ELSE IF a = <<>> THEN FALSE
    ELSE IF a[1] # b[1] THEN DigitVal(a[1]) < DigitVal(b[1])
    ELSE DigitsLess(Tail(a), Tail(b))

T_two_pow_63 ==
    <<"9", "2", "2", "3", "3", "7", "2", "0", "3", "6",
      "8", "5", "4", "7", "7", "5", "8", "0", "8">>          \* 2**63
T_two_pow_64 ==
    <<"1", "8", "4", "4", "6", "7", "4", "4", "0", "7",
      "3", "7", "0", "9", "5", "5", "1", "6", "1", "6">>     \* 2**64

\* np.isnan(value) of a Python int (line 90): an int that fits neither int64
\* nor uint64 becomes an object array, for which isnan raises TypeError
IsNanRaises(value) ==
    IF value[2] THEN DigitsLess(T_two_pow_63, value[3])
    ELSE ~DigitsLess(value[3], T_two_pow_64)

\* lines 91-111 of parse_number: the reading of str(value)
ParseText(text, decimal, thousands) ==
    LET txt0 == Strip(text)
    IN  IF txt0 = <<>> \/ Lower(txt0) \in MissingWords THEN Null
        ELSE LET txt1 == SelectSeq(txt0, LAMBDA c : c \notin StrippedChars)
                 paren == txt1 # <<>> /\ txt1[1] = "(" /\ txt1[Len(txt1)] = ")"
                 minus == ~paren /\ txt1 # <<>> /\ txt1[1] = "-"
                 negative == paren \/ minus
                 txt2 == IF paren THEN Strip(SubSeq(txt1, 2, Len(txt1) - 1))
                         ELSE IF minus THEN Strip(Tail(txt1))
                         ELSE txt1
                 val == PyFloat(ResolveSeparators(txt2, decimal, thousands))
             IN  IF val = <<"err">> THEN Null
                 ELSE IF negative THEN Neg(val) ELSE val

\* mutant of ParseNumber: a float handed in is printed and read again as text
\* with a decimal comma
ParseNumber_ReadAsText(value, decimal, thousands) ==
    IF value = None \/ IsNull(value) THEN Null
    ELSE IF IsPyInt(value)
    THEN IF IsNanRaises(value) THEN Raised("TypeError")
         ELSE <<"num", IF value[2] THEN -DigitsToNat(value[3])
                       ELSE DigitsToNat(value[3]), 0>>
    ELSE IF IsStr(value) THEN ParseText(value[2], decimal, thousands)
    ELSE IF IsNum(value) THEN ParseText(ReprNum(value, TRUE), ",", ".")
    ELSE value

\* parse_number: a float, or Null for np.nan, or the exception raised
ParseNumber(value, decimal, thousands) ==
    IF value = None \/ IsNull(value) THEN Null
    ELSE IF IsPyInt(value)
    THEN IF IsNanRaises(value) THEN Raised("TypeError")
         ELSE <<"num", IF value[2] THEN -DigitsToNat(value[3])
                       ELSE DigitsToNat(value[3]), 0>>
    ELSE IF ~IsStr(value) THEN value
    ELSE ParseText(value[2], decimal, thousands)

\* series.apply(self.parse_number) raises when parse_number does
SeriesRaises(series, decimal, thousands) ==
    /\ ~IsNumericDtype(series.dtype)
    /\ \E i \in 1..Len(series.vals) :
           IsRaised(ParseNumber(series.vals[i], decimal, thousands))

\* parse_series: <<the returned series (or the exception raised by apply),
\* the parser's _detected_format afterwards>>
ParseSeries(detected, series, decimal, thousands) ==
    IF IsNumericDtype(series.dtype) THEN <<series, detected>>
    ELSE IF SeriesRaises(series, decimal, thousands)
    THEN <<Raised("TypeError"),
           IF decimal = NoSep /\ thousands = NoSep
           THEN DetectFormat(detected, series) ELSE detected>>
    ELSE <<[dtype |-> IF series.vals = <<>> THEN series.dtype ELSE "float64",
            vals |-> [i \in 1..Len(series.vals) |->
                         ParseNumber(series.vals[i], decimal, thousands)]],
           IF decimal = NoSep /\ thousands = NoSep
           THEN DetectFormat(detected, series) ELSE detected>>

(***************************************************************************)
(* Tables.  A DataFrame is its column names, their dtypes, its index       *)
(* labels and its rows (each a tuple of cells in column order); a Series   *)
(* is a dtype and values.                                                  *)
(***************************************************************************)
NRows(d) == Len(d.rows)
NCols(d) == Len(d.cols)
ColumnSet(d) == {d.cols[j] : j \in 1..Len(d.cols)}
HasColumn(d, name) == \E j \in 1..Len(d.cols) : d.cols[j] = name
ColIndex(d, name) == CHOOSE j \in 1..Len(d.cols) : d.cols[j] = name

\* df[name]
Column(d, name) ==
    [dtype |-> d.dtypes[ColIndex(d, name)],
     vals |-> [i \in 1..Len(d.rows) |-> d.rows[i][ColIndex(d, name)]]]

\* Series.nunique() / len(Series.dropna().unique())
NUnique(series) ==
    Cardinality({series.vals[i] : i \in {k \in 1..Len(series.vals) : ~IsNull(series.vals[k])}})

\* the positions of a sequence that satisfy Keep, in order
RECURSIVE KeepIndices(_, _, _)
KeepIndices(n, Keep(_), i) ==
    IF i > n THEN <<>>
    ELSE (IF Keep(i) THEN <<i>> ELSE <<>>) \o KeepIndices(n, Keep, i + 1)

\* df.drop(columns=names): a new frame
DropColumns(d, names) ==
    LET keep == KeepIndices(Len(d.cols), LAMBDA j : d.cols[j] \notin names, 1)
    IN  [cols |-> [k \in 1..Len(keep) |-> d.cols[keep[k]]],
         dtypes |-> [k \in 1..Len(keep) |-> d.dtypes[keep[k]]],
         index |-> d.index,
         rows |-> [i \in 1..Len(d.rows) |->
                      [k \in 1..Len(keep) |-> d.rows[i][keep[k]]]]]

\* df[name] = values: replaces the column in place, or appends a new one
SetColumn(d, name, dtype, values) ==
    IF HasColumn(d, name)
    THEN LET j == ColIndex(d, name)
         IN  [cols |-> d.cols,
              dtypes |-> [d.dtypes EXCEPT ![j] = dtype],
              index |-> d.index,
              rows |-> [i \in 1..Len(d.rows) |-> [d.rows[i] EXCEPT ![j] = values[i]]]]
    ELSE [cols |-> Append(d.cols, name),
          dtypes |-> Append(d.dtypes, dtype),
          index |-> d.index,
          rows |-> [i \in 1..Len(d.rows) |-> Append(d.rows[i], values[i])]]

\* df[mask]: the rows at the kept positions, in order
SelectRows(d, Keep(_)) ==
    LET keep == KeepIndices(Len(d.rows), Keep, 1)
    IN  [cols |-> d.cols, dtypes |-> d.dtypes,
         index |-> [k \in 1..Len(keep) |-> d.index[keep[k]]],
         rows |-> [k \in 1..Len(keep) |-> d.rows[keep[k]]]]

(***************************************************************************)
(* Scores.  A score is the exact value n/d of the float the source         *)
(* computes, with ulp = 1 when IEEE-754 double arithmetic leaves that      *)
(* float one step above the double nearest to n/d (0.4 + 0.2 is            *)
(* 0.6000000000000001): two scores that are equal as fractions can differ  *)
(* as floats, and `ms > ds` compares the floats.  The flag is tracked for  *)
(* the multiples of 0.1, the only values two scores can share.  nan is     *)
(* float('nan').                                                           *)
(***************************************************************************)
Float(n, d) == [nan |-> FALSE, n |-> n, d |-> d, ulp |-> 0]
NaN == [nan |-> TRUE, n |-> 0, d |-> 1, ulp |-> 0]

\* the value in tenths, when it is a whole number of tenths
IsTenths(x) == (x.n * 10) % x.d = 0
Tenths(x) == (x.n * 10) \div x.d

\* x + 0.t for t tenths: 0.1 + 0.2, 0.4 + 0.2, 0.30000000000000004 + 0.3 and
\* 0.6000000000000001 + 0.3 round above the nearest double
FAddTenths(x, t) ==
    IF x.nan THEN NaN
    ELSE [nan |-> FALSE,
          n |-> x.n + t * (x.d \div 10),
          d |-> x.d,
          ulp |-> IF IsTenths(x) /\ <<Tenths(x), x.ulp, t>> \in
                        {<<1, 0, 2>>, <<4, 0, 2>>, <<3, 1, 3>>, <<6, 1, 3>>}
                  THEN 1 ELSE 0]

\* a < b and a > b on floats: FALSE whenever one side is nan
FLt(a, b) ==
    /\ ~a.nan /\ ~b.nan
    /\ \/ a.n * b.d < b.n * a.d
       \/ a.n * b.d = b.n * a.d /\ a.ulp < b.ulp
FGt(a, b) == FLt(b, a)

\* Python's min(a, b) and max(a, b): the first argument unless the second is
\* strictly smaller (larger)
PyMin(a, b) == IF FLt(b, a) THEN b ELSE a
PyMax(a, b) == IF FGt(b, a) THEN b ELSE a

(***************************************************************************)
(* ColumnClassifier                                                        *)
(***************************************************************************)
DimensionKeywords ==
    { <<"y", "e", "a", "r">>,
      <<"j", "a", "a", "r">>,
      <<"m", "o", "n", "t", "h">>,
      <<"m", "a", "a", "n", "d">>,
      <<"r", "e", "g", "i", "o", "n">>,
      <<"g", "e", "w", "e", "s", "t">>,
      <<"c", "a", "t", "e", "g", "o", "r", "y">>,
      <<"t", "y", "p", "e">>,
      <<"g", "r", "o", "u", "p">>,
      <<"s", "e", "g", "m", "e", "n", "t">>,
      <<"n", "a", "a", "m">>,
      <<"n", "a", "m", "e">>,
      <<"c", "o", "d", "e">>,
      <<"i", "d">>,
      <<"s", "t", "a", "t", "u", "s">>,
      <<"r", "e", "c", "h", "t", "s", "v", "o", "r", "m">> }
MeasureKeywords ==
    { <<"a", "m", "o", "u", "n", "t">>,
      <<"a", "a", "n", "t", "a", "l">>,
      <<"c", "o", "u", "n", "t">>,
      <<"s", "u", "m">>,
      <<"t", "o", "t", "a", "l">>,
      <<"v", "a", "l", "u", "e">>,
      <<"w", "a", "a", "r", "d", "e">>,
      <<"b", "e", "d", "r", "a", "g">>,
      <<"p", "r", "i", "c", "e">>,
      <<"p", "r", "i", "j", "s">>,
      <<"c", "o", "s", "t">>,
      <<"k", "o", "s", "t">>,
      <<"r", "e", "v", "e", "n", "u", "e">>,
      <<"o", "m", "z", "e", "t">>,
      <<"q", "u", "a", "n", "t", "i", "t", "y">>,
      <<"v", "o", "l", "u", "m", "e">> }

\* any(p in col.lower() for p in keywords)
NameHasKeyword(col, keywords) ==
    LET name == Lower(col)
    IN  \E p \in keywords : IsSubstring(p, name)

\* patt = re.compile(r'^[\d,.\-\(\)]+$'); bool(patt.match(x.strip()))
NumericLookingChars == Digits \cup {",", ".", "-", "(", ")"}
LooksNumeric(x) ==
    LET v == Strip(x)
    IN  v # <<>> /\ \A i \in 1..Len(v) : v[i] \in NumericLookingChars

\* lines 127-132: the score from nunique, len(df), the dtype test and the
\* keyword test
DimensionScore(nunique, n_rows, is_object, has_keyword) ==
    LET \* ratio = nunique / n_rows if n_rows else 0; ratio < 0.1, ratio < 0.3
        s1 == IF n_rows = 0 \/ nunique * 10 < n_rows THEN FAddTenths(Float(0, 10), 4)
              ELSE IF nunique * 10 < 3 * n_rows THEN FAddTenths(Float(0, 10), 2)
              ELSE Float(0, 10)
        s2 == IF is_object THEN FAddTenths(s1, 3) ELSE s1
        s3 == IF has_keyword THEN FAddTenths(s2, 3) ELSE s2
    IN  PyMin(s3, Float(1, 1))

\* compute_dimension_score
ComputeDimensionScore(d, col) ==
    DimensionScore(NUnique(Column(d, col)), NRows(d),
                   Column(d, col).dtype \in {"object", "category"},
                   NameHasKeyword(col, DimensionKeywords))

\* float(numeric_looking) * 0.4, numeric_looking the mean of k hits over n
\* sampled values: nan for an empty sample; 0.75 * 0.4 is 0.30000000000000004
LooksTimesWeight(k, n) ==
    IF n = 0 THEN NaN
    ELSE [nan |-> FALSE, n |-> 4 * k, d |-> 10 * n,
          ulp |-> IF 4 * k = 3 * n THEN 1 ELSE 0]

\* lines 136-144: the score from the dtype test, the sample (hits of the
\* pattern, size), nunique, len(df) and the keyword test
MeasureScore(is_numeric, hits, sample_size, nunique, n_rows, has_keyword) ==
    LET s1 == IF is_numeric THEN FAddTenths(Float(0, 10), 5)
              ELSE LooksTimesWeight(hits, sample_size)
        s2 == IF nunique * 2 > n_rows THEN FAddTenths(s1, 2) ELSE s1
        s3 == IF has_keyword THEN FAddTenths(s2, 3) ELSE s2
    IN  PyMin(s3, Float(1, 1))

\* compute_measure_score
ComputeMeasureScore(d, col) ==
    LET s == Column(d, col)
        sample == StrSample(s)
    IN  MeasureScore(IsNumericDtype(s.dtype),
                     Cardinality({i \in 1..Len(sample) : LooksNumeric(sample[i])}),
                     Len(sample), NUnique(s), NRows(d),
                     NameHasKeyword(col, MeasureKeywords))

\* mutant of IsMeasure: ms >= ds
IsMeasure_TieMeasure(ds, ms) == ~ds.nan /\ ~ms.nan /\ ~FLt(ms, ds)

\* (measures if ms > ds else dims).append(c)
IsMeasure(ds, ms) == FGt(ms, ds)

\* if conf[c] < self.config.min_confidence: logger.warning(...)
IsLowConfidence(conf, min_confidence) == FLt(conf, min_confidence)

\* mutant of ClassifyColumns: a column below the threshold is left out of both
\* lists
ClassifyColumns_Threshold(d, cfg) ==
    LET ds == [c \in ColumnSet(d) |-> ComputeDimensionScore(d, c)]
        ms == [c \in ColumnSet(d) |-> ComputeMeasureScore(d, c)]
        conf == [c \in ColumnSet(d) |-> PyMax(ds[c], ms[c])]
        isLow(j) == IsLowConfidence(conf[d.cols[j]], cfg.min_confidence)
        isMeasure(j) == IsMeasure(ds[d.cols[j]], ms[d.cols[j]])
        m == KeepIndices(Len(d.cols), LAMBDA j : isMeasure(j) /\ ~isLow(j), 1)
        dm == KeepIndices(Len(d.cols), LAMBDA j : ~isMeasure(j) /\ ~isLow(j), 1)
        low == KeepIndices(Len(d.cols), isLow, 1)
    IN  [dims |-> [k \in 1..Len(dm) |-> d.cols[dm[k]]],
         measures |-> [k \in 1..Len(m) |-> d.cols[m[k]]],
         conf |-> conf,
         warnings |-> [k \in 1..Len(low) |-> d.cols[low[k]]]]

\* classify_columns: dims, measures, conf, and the columns warned about
ClassifyColumns(d, cfg) ==
    LET ds == [c \in ColumnSet(d) |-> ComputeDimensionScore(d, c)]
        ms == [c \in ColumnSet(d) |-> ComputeMeasureScore(d, c)]
        conf == [c \in ColumnSet(d) |-> PyMax(ds[c], ms[c])]
        isMeasure(j) == IsMeasure(ds[d.cols[j]], ms[d.cols[j]])
        m == KeepIndices(Len(d.cols), isMeasure, 1)
        dm == KeepIndices(Len(d.cols), LAMBDA j : ~isMeasure(j), 1)
        low == KeepIndices(Len(d.cols),
                   LAMBDA j : IsLowConfidence(conf[d.cols[j]], cfg.min_confidence), 1)
    IN  [dims |-> [k \in 1..Len(dm) |-> d.cols[dm[k]]],
         measures |-> [k \in 1..Len(m) |-> d.cols[m[k]]],
         conf |-> conf,
         warnings |-> [k \in 1..Len(low) |-> d.cols[low[k]]]]

(***************************************************************************)
(* DataProfiler: the counts and labels of a profile (the statistics of the *)
(* values themselves are not modelled)                                     *)
(***************************************************************************)
ProfileColumn(series, name) ==
    [name |-> name,
     dtype |-> series.dtype,
     null_count |-> Cardinality({i \in 1..Len(series.vals) : IsNull(series.vals[i])}),
     unique_count |-> NUnique(series)]

ProfileDataframe(d) ==
    [row_count |-> NRows(d),
     column_count |-> NCols(d),
     columns |-> [j \in 1..NCols(d) |-> ProfileColumn(Column(d, d.cols[j]), d.cols[j])]]

(***************************************************************************)
(* TableCleaner                                                            *)
(***************************************************************************)
RowTypeColumn == <<"_", "r", "o", "w", "_", "t", "y", "p", "e">>                    \* '_row_type'
TotalLevelColumn == <<"_", "t", "o", "t", "a", "l", "_", "l", "e", "v", "e", "l">>  \* '_total_level'
T_detail == <<"d", "e", "t", "a", "i", "l">>
T_subtotal == <<"s", "u", "b", "t", "o", "t", "a", "l">>
T_grand_total == <<"g", "r", "a", "n", "d", "_", "t", "o", "t", "a", "l">>

RowTypeText(row_type) ==
    CASE row_type = "detail" -> T_detail
      [] row_type = "subtotal" -> T_subtotal
      [] row_type = "grand_total" -> T_grand_total

\* mutant of IdentifyConstantColumns: exactly one distinct non-null value
IdentifyConstantColumns_OneValue(d) ==
    LET keep == KeepIndices(Len(d.cols),
                    LAMBDA j : NUnique(Column(d, d.cols[j])) = 1, 1)
    IN  [k \in 1..Len(keep) |-> d.cols[keep[k]]]

\* identify_constant_columns: the columns with at most one distinct non-null
\* value, in column order
IdentifyConstantColumns(d) ==
    LET keep == KeepIndices(Len(d.cols),
                    LAMBDA j : NUnique(Column(d, d.cols[j])) <= 1, 1)
    IN  [k \in 1..Len(keep) |-> d.cols[keep[k]]]

\* str(val) of a number met in iterrows(): the row Series has one dtype, so an
\* int64 cell prints as a float when every column is numeric and one is float64
RowPrintsFloat(d, j) ==
    \/ d.dtypes[j] = "float64"
    \/ /\ \A k \in 1..Len(d.dtypes) : IsNumericDtype(d.dtypes[k])
       /\ \E k \in 1..Len(d.dtypes) : d.dtypes[k] = "float64"

\* mutant of MarkersLower: the markers are lower-cased but not trimmed
MarkersLower_NoStrip(cfg) ==
    {Lower(cfg.total_markers[k]) : k \in 1..Len(cfg.total_markers)}

\* markers_lower = {str(m).strip().lower() for m in self.config.total_markers}
MarkersLower(cfg) ==
    {Lower(Strip(cfg.total_markers[k])) : k \in 1..Len(cfg.total_markers)}

\* the status of one dimension in one row (lines 179-183)
DimStatus(d, markers_lower, i, dim) ==
    IF ~HasColumn(d, dim) THEN "missing"
    ELSE LET val == d.rows[i][ColIndex(d, dim)]
         IN  IF IsNull(val) THEN "empty"
             ELSE LET txt == Strip(AsStr(val, RowPrintsFloat(d, ColIndex(d, dim))))
                  IN  IF txt = <<>> THEN "empty"
                      ELSE IF Lower(txt) \in markers_lower THEN "marker"
                      ELSE "value"

\* mutant of RowType: any empty or marker dimension makes a grand total
RowType_NoSubtotal(dim_statuses) ==
    LET empty_or_marker ==
            Cardinality({k \in 1..Len(dim_statuses) :
                            dim_statuses[k] \in {"empty", "marker"}})
    IN  IF empty_or_marker = 0 THEN "detail" ELSE "grand_total"

\* mutant of RowType: a missing dimension does not count among the statuses
RowType_MissingNotCounted(dim_statuses) ==
    LET empty_or_marker ==
            Cardinality({k \in 1..Len(dim_statuses) :
                            dim_statuses[k] \in {"empty", "marker"}})
        present ==
            Cardinality({k \in 1..Len(dim_statuses) : dim_statuses[k] # "missing"})
    IN  IF empty_or_marker = 0 THEN "detail"
        ELSE IF empty_or_marker = present THEN "grand_total"
        ELSE "subtotal"

\* row_type of one row from its statuses (lines 184-185)
RowType(dim_statuses) ==
    LET empty_or_marker ==
            Cardinality({k \in 1..Len(dim_statuses) :
                            dim_statuses[k] \in {"empty", "marker"}})
    IN  IF empty_or_marker = 0 THEN "detail"
        ELSE IF empty_or_marker = Len(dim_statuses) THEN "grand_total"
        ELSE "subtotal"

\* classify_rows: one record per row; the empty DataFrame (no columns at all)
\* when the table has no rows
ClassifyRows(d, cfg, dims) ==
    LET markers_lower == MarkersLower(cfg)
    IN  [i \in 1..NRows(d) |->
            LET dim_statuses ==
                    [k \in 1..Len(dims) |-> DimStatus(d, markers_lower, i, dims[k])]
            IN  [row_type |-> RowType(dim_statuses),
                 dim_statuses |-> dim_statuses,
                 total_level |-> Cardinality({k \in 1..Len(dim_statuses) :
                                     dim_statuses[k] \in {"empty", "marker"}})]]

\* the dtype pd.to_numeric(downcast='integer') settles on
DowncastInteger(vals) ==
    LET big == SetMax({0} \cup {Abs(vals[i][2]) : i \in 1..Len(vals)})
    IN  IF big < 128 THEN "int8" ELSE IF big < 32768 THEN "int16" ELSE "int32"

\* _optimize_dtypes, one column: the dtype it ends with (values are kept)
OptimizedDtype(series) ==
    LET present == DropNa(series.vals)
    IN  IF series.dtype = "int64" THEN DowncastInteger(present)
        ELSE IF series.dtype = "float64"
        THEN IF \E i \in 1..Len(present) : present[i][1] = "inf"
             THEN series.dtype                    \* int(inf) raises: swallowed
             ELSE IF \A i \in 1..Len(present) : present[i][3] = 0
             THEN "Int64"
             ELSE "float32"
        ELSE series.dtype

\* _optimize_dtypes
OptimizeDtypes(d) ==
    [d EXCEPT !.dtypes = [j \in 1..NCols(d) |-> OptimizedDtype(Column(d, d.cols[j]))]]

\* lines 233-235: parse every measure present in detail, in list order, with
\* the one parser of the cleaner; log holds, for each parse_series call, the
\* column handed in and self.parser._detected_format when the call ended
RECURSIVE ParseMeasures(_, _, _, _, _)
ParseMeasures(detail, measures, detected, cfg, k) ==
    IF k > Len(measures)
    THEN [df |-> detail, detected |-> detected, raised |-> FALSE, log |-> <<>>]
    ELSE IF ~HasColumn(detail, measures[k])
    THEN ParseMeasures(detail, measures, detected, cfg, k + 1)
    ELSE LET series == Column(detail, measures[k])
             r == ParseSeries(detected, series, cfg.decimal, cfg.thousands)
             entry == [column |-> measures[k], series |-> series, hypothesis |-> r[2]]
         IN  IF SeriesRaises(series, cfg.decimal, cfg.thousands)
             THEN [df |-> detail, detected |-> r[2], raised |-> TRUE, log |-> <<entry>>]
             ELSE LET rest == ParseMeasures(
                                  SetColumn(detail, measures[k], r[1].dtype, r[1].vals),
                                  measures, r[2], cfg, k + 1)
                  IN  [rest EXCEPT !.log = <<entry>> \o rest.log]

\* row_classifications['row_type'].value_counts().to_dict()
RowTypeCounts(rc) ==
    [t \in {rc[i].row_type : i \in 1..Len(rc)} |->
        Cardinality({i \in 1..Len(rc) : rc[i].row_type = t})]

\* lines 210-213: the constant columns, and self.df after the drop
ConstantsToDrop(d, cfg) ==
    IF IdentifyConstantColumns(d) # <<>> /\ ~cfg.keep_constants
    THEN IdentifyConstantColumns(d) ELSE <<>>

\* mutant of ResolveColumns: every column is a dimension, measures or not
ResolveColumns_EveryColumnDimension(d, cfg) ==
    [dims |-> d.cols,
     measures |-> IF cfg.measures # <<>> THEN cfg.measures
                  ELSE ClassifyColumns(d, cfg).measures,
     confidence |-> ClassifyColumns(d, cfg).conf,
     classified |-> TRUE]

\* mutant of ResolveColumns: one configured list switches inference off for
\* both lists
ResolveColumns_NoPartialOverride(d, cfg) ==
    IF cfg.dims = <<>> /\ cfg.measures = <<>>
    THEN [dims |-> ClassifyColumns(d, cfg).dims,
          measures |-> ClassifyColumns(d, cfg).measures,
          confidence |-> ClassifyColumns(d, cfg).conf,
          classified |-> TRUE]
    ELSE [dims |-> cfg.dims, measures |-> cfg.measures,
          confidence |-> IF cfg.dims = <<>> \/ cfg.measures = <<>>
                         THEN ClassifyColumns(d, cfg).conf ELSE <<>>,
          classified |-> FALSE]

\* lines 215-222: dims, measures, confidence (an empty list is as falsy as None)
ResolveColumns(d, cfg) ==
    IF cfg.dims = <<>> \/ cfg.measures = <<>>
    THEN LET c == ClassifyColumns(d, cfg)
         IN  [dims |-> IF cfg.dims # <<>> THEN cfg.dims ELSE c.dims,
              measures |-> IF cfg.measures # <<>> THEN cfg.measures ELSE c.measures,
              confidence |-> c.conf,
              classified |-> TRUE]
    ELSE [dims |-> cfg.dims, measures |-> cfg.measures, confidence |-> <<>>,
          classified |-> FALSE]

\* lines 226-227: self.df with the two helper columns written in place
WithHelperColumns(d1, rc) ==
    SetColumn(SetColumn(d1, RowTypeColumn, "object",
                        [i \in 1..Len(rc) |-> Str(RowTypeText(rc[i].row_type))]),
              TotalLevelColumn, "int64",
              [i \in 1..Len(rc) |-> <<"num", rc[i].total_level, 0>>])

\* line 229 and 231: the detail rows, helper columns dropped
DetailRows(d3, rtcol) ==
    DropColumns(SelectRows(d3, LAMBDA i : d3.rows[i][rtcol] = Str(T_detail)),
                {RowTypeColumn, TotalLevelColumn})

\* mutant of TotalRows: every row goes to totals
TotalRows_AllRows(d3, rtcol) ==
    SelectRows(d3, LAMBDA i : TRUE)

\* line 230: the other rows, helper columns kept
TotalRows(d3, rtcol) ==
    SelectRows(d3, LAMBDA i : d3.rows[i][rtcol] # Str(T_detail))

\* lines 237-256: the optimized detail table and the result returned
CleanResult(d, cfg, const_cols, resolved, rc, totals, parsed, detail) ==
    [raised |-> FALSE,
     detail |-> detail,
     totals |-> totals,
     metadata |->
        [original_shape |-> <<NRows(d), NCols(d)>>,
         original_columns |-> d.cols,
         dropped_columns |-> IF ~cfg.keep_constants THEN const_cols ELSE <<>>,
         dimensions |-> resolved.dims,
         measures |-> resolved.measures,
         confidence_scores |-> resolved.confidence,
         row_type_counts |-> RowTypeCounts(rc),
         total_markers |-> cfg.total_markers,
         profile_before |-> ProfileDataframe(d),
         profile_after |-> ProfileDataframe(detail),
         number_format |-> parsed.detected]]

\* lines 233-256, given the detail rows with their measures parsed
CleanParsed(d, cfg, const_cols, dropped, resolved, rc, d3, parsed) ==
    [df |-> d3, rebound |-> dropped # <<>>, detected |-> parsed.detected,
     parse_log |-> parsed.log,
     result |-> IF parsed.raised THEN [raised |-> TRUE, error |-> "TypeError"]
                ELSE CleanResult(d, cfg, const_cols, resolved, rc,
                                 TotalRows(d3, ColIndex(d3, RowTypeColumn)),
                                 parsed, OptimizeDtypes(parsed.df))]

\* lines 229-256, given self.df with its helper columns
CleanSplit(d, cfg, detected, const_cols, dropped, resolved, rc, d3) ==
    CleanParsed(d, cfg, const_cols, dropped, resolved, rc, d3,
                ParseMeasures(DetailRows(d3, ColIndex(d3, RowTypeColumn)),
                              resolved.measures, detected, cfg, 1))

\* lines 225-256, given the row classifications: the empty classification
\* frame of a table without rows has no 'row_type' column (line 225 raises)
CleanClassified(d, cfg, detected, const_cols, dropped, d1, resolved, rc) ==
    IF rc = <<>>
    THEN [df |-> d1, rebound |-> dropped # <<>>, detected |-> detected,
          parse_log |-> <<>>,
          result |-> [raised |-> TRUE, error |-> "KeyError"]]
    ELSE CleanSplit(d, cfg, detected, const_cols, dropped, resolved, rc,
                    WithHelperColumns(d1, rc))

\* lines 224-256, given the resolved dimensions and measures
CleanResolved(d, cfg, detected, const_cols, dropped, d1, resolved) ==
    CleanClassified(d, cfg, detected, const_cols, dropped, d1, resolved,
                    ClassifyRows(d1, cfg, resolved.dims))

\* lines 215-256, given self.df after the constant columns were dropped
CleanDropped(d, cfg, detected, const_cols, dropped, d1) ==
    CleanResolved(d, cfg, detected, const_cols, dropped, d1, ResolveColumns(d1, cfg))

\* lines 213-256, given the constant columns and those to drop
CleanConstants(d, cfg, detected, const_cols, dropped) ==
    CleanDropped(d, cfg, detected, const_cols, dropped,
                 IF dropped # <<>>
                 THEN DropColumns(d, {dropped[k] : k \in 1..Len(dropped)})
                 ELSE d)

\* clean(): self.df and the parser's hypothesis afterwards, whether self.df was
\* rebound to a new frame, and the result (or the exception raised)
Clean(d, cfg, detected) ==
    CleanConstants(d, cfg, detected, IdentifyConstantColumns(d), ConstantsToDrop(d, cfg))

(***************************************************************************)
(* CleaningConfig and the empty table                                      *)
(***************************************************************************)
DefaultTotalMarkers ==
    << <<"T", "o", "t", "a", "a", "l">>,
       <<"T", "o", "t", "a", "l">>,
       <<"A", "l", "l", "e">>,
       <<"A", "l", "l", "e", " ", "p", "l", "a", "a", "t", "s", "e", "n">>,
       <<"A", "l", "l">>,
       <<"G", "r", "a", "n", "d", " ", "t", "o", "t", "a", "l">>,
       <<"S", "u", "b", "t", "o", "t", "a", "l">>,
       <<"T", "o", "t", "a", "l", "e", "n">>,
       <<"S", "u", "m">>,
       <<"S", "u", "m", "m", "a", "r", "y">>,
       <<"A", "g", "g", "r", "e", "g", "a", "t", "e">>,
       <<"O", "v", "e", "r", "a", "l", "l">> >>

\* CleaningConfig(): the dataclass defaults.  dims and measures are None or a
\* list, read only through their truth value: <<>> stands for None and for []
DefaultConfig ==
    [dims |-> <<>>, measures |-> <<>>, total_markers |-> DefaultTotalMarkers,
     keep_constants |-> FALSE, decimal |-> NoSep, thousands |-> NoSep,
     min_confidence |-> Float(7, 10)]

EmptyDf == [cols |-> <<>>, dtypes |-> <<>>, index |-> <<>>, rows |-> <<>>]

(***************************************************************************)
(* Inputs of the NumberParser operations                                   *)
(***************************************************************************)
T_grouped_comma == <<"1", ".", "2", "3", "4", ",", "5", "6">>        \* '1.234,56'
T_grouped_comma2 == <<"2", ".", "0", "0", "0", ",", "0", "0">>       \* '2.000,00'
T_grouped_dot == <<"1", ",", "2", "3", "4", ".", "5", "6">>          \* '1,234.56'
T_short_comma == <<" ", "1", ",", "5", " ">>                         \* ' 1,5 '
T_short_dot == <<"2", ".", "5", "0">>                                \* '2.50'
T_ambiguous == <<"1", ",", "2", "3", "4">>                           \* '1,234'
T_word == <<"N", "L">>                                               \* 'NL'
T_blank == <<" ", " ">>                                              \* '  '
T_paren == <<"(", "1", ",", "2", "3", "4", ".", "5", "0", ")">>      \* '(1,234.50)'
T_na == <<"N", "/", "A">>                                            \* 'N/A'
T_dash == <<"-">>                                                    \* '-'
T_minus_minus == <<"-", "-", "5">>                                   \* '--5'
T_paren_minus == <<"(", "-", "5", ")">>                              \* '(-5)'
T_euro == <<"€", " ", "1", ".", "2", "3", "4", ",", "5", "6">>       \* '€ 1.234,56'
T_dot_thousands == <<"1", ".", "2", "3", "4">>                       \* '1.234'
T_long_tail == <<"1", "2", ",", "3", "4", "5", "6">>                 \* '12,3456'
T_two_commas == <<"1", ",", "2", "3", "4", ",", "5", "6", "7">>      \* '1,234,567'
T_plain == <<"1", "2">>                                              \* '12'
T_neg == <<"-", "7", ",", "5">>                                      \* '-7,5'
T_pct == <<"4", "5", " ", "%">>                                      \* '45 %'
T_euro_paren == <<"(", "€", "5", ")">>                               \* '(€5)'
T_minus_zero == <<"-", "0">>                                         \* '-0'
T_inf_text == <<"-", "I", "n", "f">>                                 \* '-Inf'
T_none_upper == <<" ", "N", "o", "N", "e", " ">>                     \* ' NoNe '
\* 10**30 as a Python int
T_ten_pow_30 == <<"1">> \o Repeat("0", 30)

\* the values handed to parse_number
ParseValues ==
    { None, Null, Str(<<>>), Str(T_blank), Str(T_word),
      Str(T_grouped_comma), Str(T_grouped_comma2), Str(T_grouped_dot),
      Str(T_short_comma), Str(T_short_dot), Str(T_ambiguous), Str(T_paren),
      Str(T_na), Str(T_dash), Str(T_minus_minus), Str(T_paren_minus), Str(T_euro),
      Str(T_dot_thousands), Str(T_long_tail), Str(T_two_commas), Str(T_plain),
      Str(T_neg), Str(T_pct), Str(T_euro_paren), Str(T_minus_zero), Str(T_inf_text),
      Str(T_none_upper), <<"num", 25, 1>>, <<"num", -3, 0>>, <<"num", 0, 0>>,
      PyInt(FALSE, T_plain), PyInt(TRUE, T_plain), PyInt(FALSE, T_ten_pow_30) }

\* short columns: every vote outcome (comma majority, dot majority, tie, no
\* evidence, empty, nulls only), both kinds of pattern on each side
ShortColumns ==
    { <<>>,
      <<Null>>,
      <<Str(T_word)>>,
      <<Str(T_ambiguous)>>,
      <<Str(T_grouped_comma)>>,
      <<Str(T_short_comma)>>,
      <<Str(T_grouped_dot)>>,
      <<Str(T_short_dot)>>,
      <<Str(T_grouped_comma), Str(T_grouped_comma2)>>,
      <<Str(T_grouped_comma), Str(T_grouped_dot)>>,
      <<Str(T_short_dot), Str(T_short_comma)>>,
      <<Str(T_ambiguous), Str(T_short_dot)>>,
      <<Str(T_short_comma), Str(T_dot_thousands), Null>>,
      <<Str(T_short_comma), Str(T_grouped_comma), Str(T_short_dot)>>,
      <<Str(T_grouped_dot), Null, Str(T_short_dot), Str(T_short_comma)>> }

MaxTail == 2

\* long columns: a run of one value around the sampling cap, then a short run
\* of comma-decimal values
LongColumns ==
    { Repeat(pad, n) \o Repeat(Str(T_short_comma), m) :
        pad \in {Null, Str(T_word)},
        n \in {SampleCap - 1, SampleCap},
        m \in {MaxTail} }

ObjectSeries == {[dtype |-> "object", vals |-> v] : v \in ShortColumns \cup LongColumns}
NumericSeries ==
    { [dtype |-> "float64", vals |-> v] :
        v \in { << <<"num", 25, 1>>, Null >>, << <<"num", 15, 1>>, <<"num", 2, 0>> >> } }
SeriesInputs == ObjectSeries \cup NumericSeries

Separators == {NoSep, ",", "."}
\* NumberParser(decimal, thousands): nothing, both, or only one configured
ParserConfigs ==
    { [DefaultConfig EXCEPT !.decimal = d[1], !.thousands = d[2]] :
        d \in { <<NoSep, NoSep>>, <<",", ".">>, <<".", ",">>, <<",", NoSep>>, <<NoSep, ",">> } }

(***************************************************************************)
(* Inputs of the TableCleaner and ColumnClassifier operations              *)
(***************************************************************************)
N_region == <<"r", "e", "g", "i", "o", "n">>                \* 'region'
N_unit == <<"u", "n", "i", "t">>                            \* 'unit'
N_amount == <<"a", "m", "o", "u", "n", "t">>                \* 'amount'
N_price == <<"p", "r", "i", "c", "e">>                      \* 'price'
N_year == <<"y", "e", "a", "r">>                            \* 'year'
N_value == <<"v", "a", "l", "u", "e">>                      \* 'value'
N_ref == <<"r", "e", "f">>                                  \* 'ref'
N_note == <<"n", "o", "t", "e">>                            \* 'note'
N_ghost == <<"g", "h", "o", "s", "t">>                      \* 'ghost'

\* pd.DataFrame(rows, columns=cols): the index is 0 .. n-1
MakeDf(cols, dtypes, rows) ==
    [cols |-> cols, dtypes |-> dtypes,
     index |-> [i \in 1..Len(rows) |-> i - 1], rows |-> rows]

\* a sales table: two text dimensions, a comma-decimal and a dot-decimal amount
SalesColumns == <<N_region, N_unit, N_amount, N_price>>
SalesDtypes == <<"object", "object", "object", "object">>
SalesRows ==
    << <<Str(<<"N", "L">>), Str(<<"E", "U", "R">>), Str(<<"1", ".", "2", "3", "4", ",", "5", "6">>), Str(<<"2", ".", "5", "0">>)>>,
       <<Str(<<"B", "E">>), Str(<<"E", "U", "R">>), Str(<<"2", ".", "0", "0", "0", ",", "0", "0">>), Str(<<"1", ".", "5", "0">>)>>,
       <<Str(<<" ", "T", "O", "T", "A", "A", "L", " ">>), Str(<<"E", "U", "R">>), Str(<<"3", ".", "2", "3", "4", ",", "5", "6">>), Str(<<"4", ".", "0", "0">>)>>,
       <<Null, Str(<<" ", " ">>), Str(<<"(", "1", ",", "2", "3", "4", ".", "5", "0", ")">>), Null>>,
       <<Str(<<"N", "L">>), Str(<<"A", "l", "l", "e">>), Str(<<"1", ",", "2", "3", "4">>), Str(<<"2", ".", "5", "0">>)>>,
       <<Str(<<"F", "R">>), Str(<<"s", "o", "m", " ">>), Str(<<"N", "/", "A">>), Str(<<"-", "7", ",", "5">>)>> >>

\* an all-numeric table: iterrows() hands out every cell as a float
YearColumns == <<N_year, N_value>>
YearDtypes == <<"int64", "float64">>
YearRows ==
    << << <<"num", 2020, 0>>, <<"num", 25, 1>> >>,
       << <<"num", 2021, 0>>, Null >>,
       << <<"num", 2, 0>>, <<"num", 3, 0>> >>,
       << <<"num", 2021, 0>>, <<"num", 25, 1>> >> >>

\* a table whose columns score the same, as fractions, on both sides, with a
\* column that holds no value at all
TieColumns == <<N_ref, N_amount, N_unit, N_note>>
TieDtypes == <<"object", "object", "object", "object">>
TieRows ==
    << <<Str(<<"1", "2">>), Str(<<"N", "L">>), Str(<<"E", "U", "R">>), Null>>,
       <<Str(<<"1", "2">>), Str(<<"N", "L">>), Str(<<"E", "U", "R">>), Null>>,
       <<Str(<<"1", "2">>), Str(<<"B", "E">>), Str(<<"E", "U", "R">>), Null>>,
       <<Str(<<"N", "L">>), Str(<<"B", "E">>), Null, Null>> >>

MaxRows == 2
TallRows == 11

\* the runs of at most MaxRows consecutive rows of a pool
Windows(pool) ==
    { SubSeq(pool, w[1], w[1] + w[2] - 1) :
        w \in { v \in (1..Len(pool)) \X (0..MaxRows) : v[1] + v[2] - 1 <= Len(pool) } }

T_custom_marker == <<" ", "S", "o", "m", " ">>   \* ' Som '
T_two_point_oh == <<"2", ".", "0">>   \* '2.0'

\* the longest runs among them
FullWindows(pool) ==
    { w \in Windows(pool) : \A v \in Windows(pool) : Len(v) <= Len(w) }

SalesTable(rows) == MakeDf(SalesColumns, SalesDtypes, rows)
YearTable(rows) == MakeDf(YearColumns, YearDtypes, rows)
TieTable == MakeDf(TieColumns, TieDtypes, TieRows)
TallTable == SalesTable(Repeat(SalesRows[1], TallRows) \o <<SalesRows[6]>>)
\* the whole sales table: detail rows around subtotal and grand-total rows
WholeSalesTable == SalesTable(SalesRows)

KeepConstants == [DefaultConfig EXCEPT !.keep_constants = TRUE]
\* dims and/or measures configured, some naming a column the table lacks
DimsOnly == [DefaultConfig EXCEPT !.dims = <<N_region, N_ghost>>]
MeasuresOnly == [DefaultConfig EXCEPT !.measures = <<N_amount, N_ghost>>]
DimsAndMeasures ==
    [DefaultConfig EXCEPT !.dims = <<N_region, N_unit>>,
                          !.measures = <<N_price, N_amount>>]
OtherMarkers ==
    [DefaultConfig EXCEPT !.total_markers = <<T_custom_marker, T_two_point_oh>>,
                          !.keep_constants = TRUE]
ExplicitSeparators == [DefaultConfig EXCEPT !.decimal = ",", !.thousands = "."]
WarnAlways == [DefaultConfig EXCEPT !.min_confidence = Float(1, 1)]
WarnNever ==
    [DefaultConfig EXCEPT !.min_confidence = Float(0, 10), !.keep_constants = TRUE]

\* the extreme thresholds: no column is below 0.0, every column short of a
\* full score is below 1.0
MinConfidences == {Float(0, 10), Float(1, 1)}

\* TableCleaner(df, config): the tables and configurations it is built on
Scenarios ==
    ({SalesTable(rows) : rows \in Windows(SalesRows)} \X {DefaultConfig, KeepConstants})
    \cup ({SalesTable(rows) : rows \in FullWindows(SalesRows)} \X
            {DimsOnly, MeasuresOnly, DimsAndMeasures, OtherMarkers, ExplicitSeparators})
    \cup ({YearTable(rows) : rows \in Windows(YearRows)} \X {DefaultConfig})
    \cup ({YearTable(rows) : rows \in FullWindows(YearRows)} \X {OtherMarkers})
    \cup ({TieTable} \X {DefaultConfig, KeepConstants, WarnAlways, WarnNever})
    \cup ({TallTable} \X {DefaultConfig})
    \cup ({WholeSalesTable} \X {DefaultConfig, DimsOnly, MeasuresOnly})

\* the dims lists handed to classify_rows
DimsArgs == { <<>>, <<N_region, N_unit>>, <<N_unit, N_ghost, N_region>>, <<N_year>> }

(***************************************************************************)
(* NumberParser as a state machine: one instance, its operations called in *)
(* any order with any inputs.                                              *)
(***************************************************************************)
InitParser ==
    /\ df = EmptyDf
    /\ caller_df = EmptyDf
    /\ shared = TRUE
    /\ config \in ParserConfigs
    /\ detected_format = None
    /\ calls = 0
    /\ lastOp = "init"
    /\ arg = None
    /\ ret = None
    /\ pc = "idle"
    /\ locals = None

CallDetectFormat(series) ==
    /\ lastOp' = "detect_format"
    /\ arg' = series
    /\ detected_format' = DetectFormat(detected_format, series)
    /\ ret' = detected_format'
    /\ UNCHANGED <<pc, locals, df, caller_df, shared, config, calls>>

CallParseNumber(value) ==
    /\ lastOp' = "parse_number"
    /\ arg' = value
    /\ ret' = ParseNumber(value, config.decimal, config.thousands)
    /\ UNCHANGED <<pc, locals, df, caller_df, shared, config, calls, detected_format>>

CallParseSeries(series) ==
    \E r \in {ParseSeries(detected_format, series, config.decimal, config.thousands)} :
        /\ lastOp' = "parse_series"
        /\ arg' = series
        /\ ret' = r[1]
        /\ detected_format' = r[2]
        /\ UNCHANGED <<pc, locals, df, caller_df, shared, config, calls>>

\* parse_number called on the float (or missing sentinel) it has just returned
CallParseNumberOnResult ==
    /\ lastOp = "parse_number"
    /\ ~IsRaised(ret)
    /\ lastOp' = "parse_number_on_result"
    /\ arg' = ret
    /\ ret' = ParseNumber(ret, config.decimal, config.thousands)
    /\ UNCHANGED <<pc, locals, df, caller_df, shared, config, calls, detected_format>>

NextParser ==
    \/ \E series \in SeriesInputs : CallDetectFormat(series)
    \/ \E value \in ParseValues : CallParseNumber(value)
    \/ CallParseNumberOnResult
    \/ \E series \in SeriesInputs : CallParseSeries(series)

SpecParser == InitParser /\ [][NextParser]_vars

(***************************************************************************)
(* TableCleaner as a state machine: one instance built on a table and a    *)
(* configuration, its methods (and those of a ColumnClassifier built on    *)
(* its current table) called in any order.                                 *)
(***************************************************************************)
MaxCleanCalls == 2

\* TableCleaner(df, config): self.df is the caller's object, the parser fresh
Init ==
    /\ \E sc \in Scenarios : df = sc[1] /\ config = sc[2]
    /\ caller_df = df
    /\ shared = TRUE
    /\ detected_format = None
    /\ calls = 0
    /\ lastOp = "init"
    /\ arg = None
    /\ ret = None
    /\ pc = "idle"
    /\ locals = None

\* clean(): a drop rebinds self.df to a new frame, the helper columns are
\* written into whatever frame self.df then is
CallClean ==
    /\ calls < MaxCleanCalls
    /\ \E r \in {Clean(df, config, detected_format)} :
          /\ calls' = calls + 1
          /\ lastOp' = "clean"
          /\ arg' = None
          /\ ret' = r.result
          /\ df' = r.df
          /\ detected_format' = r.detected
          /\ shared' = (shared /\ ~r.rebound)
          /\ caller_df' = IF shared /\ ~r.rebound THEN r.df ELSE caller_df
          /\ UNCHANGED <<config, pc, locals>>

CallIdentifyConstantColumns ==
    /\ lastOp' = "identify_constant_columns"
    /\ arg' = None
    /\ ret' = IdentifyConstantColumns(df)
    /\ UNCHANGED <<pc, locals, df, caller_df, shared, config, detected_format, calls>>

CallClassifyRows(dims) ==
    /\ lastOp' = "classify_rows"
    /\ arg' = dims
    /\ ret' = ClassifyRows(df, config, dims)
    /\ UNCHANGED <<pc, locals, df, caller_df, shared, config, detected_format, calls>>

\* ColumnClassifier(self.df, self.config).classify_columns()
CallClassifyColumns ==
    /\ lastOp' = "classify_columns"
    /\ arg' = None
    /\ ret' = ClassifyColumns(df, config)
    /\ UNCHANGED <<pc, locals, df, caller_df, shared, config, detected_format, calls>>

Next ==
    \/ CallClean
    \/ CallIdentifyConstantColumns
    \/ \E dims \in DimsArgs : CallClassifyRows(dims)
    \/ CallClassifyColumns

Spec == Init /\ [][Next]_vars

(***************************************************************************)
(* clean() step by step: one action per stage of the call, the local       *)
(* variables of the call in `locals`.  pc names the stage reached; "Raised"*)
(* is a call that ended in an exception.                                   *)
(***************************************************************************)
Stages ==
    <<"Raw", "ConstantsRemoved", "Classified", "RowsClassified", "Split",
      "MeasuresParsed", "Optimized", "Profiled">>

\* the locals of a call that has just been entered on self.df
EntryLocals(d, detected) ==
    [entry |-> d, entry_detected |-> detected,
     original_shape |-> None, original_columns |-> None, profile_before |-> None,
     const_cols |-> None, dropped |-> None, resolved |-> None, rc |-> None,
     detail |-> None, totals |-> None, parsed |-> None, profile_after |-> None]

\* line 205: a clean() call is entered
EnterClean ==
    /\ pc \in {"idle", "Profiled", "Raised"}
    /\ calls < MaxCleanCalls
    /\ calls' = calls + 1
    /\ pc' = "Raw"
    /\ locals' = EntryLocals(df, detected_format)
    /\ lastOp' = "clean"
    /\ arg' = None
    /\ ret' = None
    /\ UNCHANGED <<df, caller_df, shared, config, detected_format>>

\* lines 206-213: shape, columns and profile of the table, then the constant
\* columns are dropped (a drop rebinds self.df to a new frame)
RemoveConstants ==
    /\ pc = "Raw"
    /\ pc' = "ConstantsRemoved"
    /\ \E dropped \in {ConstantsToDrop(df, config)} :
          /\ locals' = [locals EXCEPT
                           !.original_shape = <<NRows(df), NCols(df)>>,
                           !.original_columns = df.cols,
                           !.profile_before = ProfileDataframe(df),
                           !.const_cols = IdentifyConstantColumns(df),
                           !.dropped = dropped]
          /\ df' = IF dropped # <<>>
                   THEN DropColumns(df, {dropped[k] : k \in 1..Len(dropped)})
                   ELSE df
          /\ shared' = (shared /\ dropped = <<>>)
    /\ UNCHANGED <<caller_df, config, detected_format, calls, lastOp, arg, ret>>

\* lines 215-222: dimensions, measures and confidence are resolved
ResolveStep ==
    /\ pc = "ConstantsRemoved"
    /\ pc' = "Classified"
    /\ locals' = [locals EXCEPT !.resolved = ResolveColumns(df, config)]
    /\ UNCHANGED <<df, caller_df, shared, config, detected_format, calls,
                   lastOp, arg, ret>>

\* lines 224-227: the rows are classified and the helper columns written into
\* self.df; line 225 raises KeyError when the table has no rows
ClassifyRowsStep ==
    /\ pc = "Classified"
    /\ \E rc \in {ClassifyRows(df, config, locals.resolved.dims)} :
          IF rc = <<>>
          THEN /\ pc' = "Raised"
               /\ locals' = [locals EXCEPT !.rc = rc]
               /\ ret' = [raised |-> TRUE, error |-> "KeyError"]
               /\ UNCHANGED <<df, caller_df>>
          ELSE /\ pc' = "RowsClassified"
               /\ locals' = [locals EXCEPT !.rc = rc]
               /\ df' = WithHelperColumns(df, rc)
               /\ caller_df' = IF shared THEN df' ELSE caller_df
               /\ UNCHANGED ret
    /\ UNCHANGED <<shared, config, detected_format, calls, lastOp, arg>>

\* lines 229-231: detail and totals are split off
SplitStep ==
    /\ pc = "RowsClassified"
    /\ pc' = "Split"
    /\ locals' = [locals EXCEPT
                     !.detail = DetailRows(df, ColIndex(df, RowTypeColumn)),
                     !.totals = TotalRows(df, ColIndex(df, RowTypeColumn))]
    /\ UNCHANGED <<df, caller_df, shared, config, detected_format, calls,
                   lastOp, arg, ret>>

\* ParseStep with every column of detail handed to the parser (no such code)
ParseStep_EveryColumn ==
    /\ pc = "Split"
    /\ \E parsed \in {ParseMeasures(locals.detail, locals.detail.cols,
                                    detected_format, config, 1)} :
          /\ pc' = IF parsed.raised THEN "Raised" ELSE "MeasuresParsed"
          /\ locals' = [locals EXCEPT !.detail = parsed.df, !.parsed = parsed]
          /\ detected_format' = parsed.detected
          /\ ret' = IF parsed.raised THEN [raised |-> TRUE, error |-> "TypeError"]
                    ELSE ret
    /\ UNCHANGED <<df, caller_df, shared, config, calls, lastOp, arg>>

\* lines 233-235: the measure columns of detail are parsed
ParseStep ==
    /\ pc = "Split"
    /\ \E parsed \in {ParseMeasures(locals.detail, locals.resolved.measures,
                                    detected_format, config, 1)} :
          /\ pc' = IF parsed.raised THEN "Raised" ELSE "MeasuresParsed"
          /\ locals' = [locals EXCEPT !.detail = parsed.df, !.parsed = parsed]
          /\ detected_format' = parsed.detected
          /\ ret' = IF parsed.raised THEN [raised |-> TRUE, error |-> "TypeError"]
                    ELSE ret
    /\ UNCHANGED <<df, caller_df, shared, config, calls, lastOp, arg>>

\* line 237: the dtypes of detail are optimized
OptimizeStep ==
    /\ pc = "MeasuresParsed"
    /\ pc' = "Optimized"
    /\ locals' = [locals EXCEPT !.detail = OptimizeDtypes(locals.detail)]
    /\ UNCHANGED <<df, caller_df, shared, config, detected_format, calls,
                   lastOp, arg, ret>>

\* lines 238-256: detail is profiled and the result returned
ProfileStep ==
    /\ pc = "Optimized"
    /\ pc' = "Profiled"
    /\ locals' = [locals EXCEPT !.profile_after = ProfileDataframe(locals.detail)]
    /\ ret' = [raised |-> FALSE,
               detail |-> locals.detail,
               totals |-> locals.totals,
               metadata |->
                  [original_shape |-> locals.original_shape,
                   original_columns |-> locals.original_columns,
                   dropped_columns |-> IF ~config.keep_constants
                                       THEN locals.const_cols ELSE <<>>,
                   dimensions |-> locals.resolved.dims,
                   measures |-> locals.resolved.measures,
                   confidence_scores |-> locals.resolved.confidence,
                   row_type_counts |-> RowTypeCounts(locals.rc),
                   total_markers |-> config.total_markers,
                   profile_before |-> locals.profile_before,
                   profile_after |-> ProfileDataframe(locals.detail),
                   number_format |-> detected_format]]
    /\ UNCHANGED <<df, caller_df, shared, config, detected_format, calls,
                   lastOp, arg>>

NextStages ==
    \/ EnterClean
    \/ RemoveConstants
    \/ ResolveStep
    \/ ClassifyRowsStep
    \/ SplitStep
    \/ ParseStep
    \/ OptimizeStep
    \/ ProfileStep

SpecStages == Init /\ [][NextStages]_vars

(***************************************************************************)
(* Claims about TableCleaner and ColumnClassifier (checked under Spec)     *)
(***************************************************************************)
SeqToSet(q) == {q[k] : k \in 1..Len(q)}
NoDuplicates(q) == \A j, k \in 1..Len(q) : q[j] = q[k] => j = k

\* C1: every row of classify_rows(dims) has total_level in [0, len(dims)] and a
\* row_type fixed by total_level and len(dims): 0 gives detail, len(dims)
\* (when positive) gives grand_total, anything else subtotal; with no dims
\* every row is detail.
C1_RowTypeFromTotalLevel ==
    lastOp = "classify_rows" =>
        /\ Len(ret) = NRows(df)
        /\ \A i \in 1..Len(ret) :
              /\ ret[i].total_level \in 0..Len(arg)
              /\ ret[i].row_type =
                    IF ret[i].total_level = 0 THEN "detail"
                    ELSE IF ret[i].total_level = Len(arg) THEN "grand_total"
                    ELSE "subtotal"
              /\ arg = <<>> => ret[i].row_type = "detail"

\* C1 witness: one classification over two dimensions in which a row with one
\* empty-or-marker dimension is a subtotal and a row with two is a grand total
C1_Witness ==
    /\ lastOp = "classify_rows"
    /\ Len(arg) = 2
    /\ \E i \in 1..Len(ret) : ret[i].total_level = 1 /\ ret[i].row_type = "subtotal"
    /\ \E i \in 1..Len(ret) : ret[i].total_level = 2 /\ ret[i].row_type = "grand_total"

\* the text of a cell as the row loop sees it, trimmed
CellText(d, i, j) == Strip(AsStr(d.rows[i][j], RowPrintsFloat(d, j)))

\* the status the rule of C2 gives to one dimension of one row
StatusByRule(d, cfg, i, dim) ==
    IF dim \notin ColumnSet(d) THEN "missing"
    ELSE LET j == ColIndex(d, dim)
         IN  IF IsNull(d.rows[i][j]) \/ CellText(d, i, j) = <<>> THEN "empty"
             ELSE IF \E m \in 1..Len(cfg.total_markers) :
                        Lower(CellText(d, i, j)) = Lower(Strip(cfg.total_markers[m]))
             THEN "marker"
             ELSE "value"

\* C2: each (row, dimension) pair gets one status, in the order missing (the
\* name is not a column), empty (null or blank after trimming), marker (equal,
\* trimmed and lower-cased, to a trimmed and lower-cased total marker), value;
\* total_level counts the empty and marker statuses only.
C2_DimStatusOrder ==
    lastOp = "classify_rows" =>
        \A i \in 1..Len(ret) :
            /\ Len(ret[i].dim_statuses) = Len(arg)
            /\ \A k \in 1..Len(arg) :
                  ret[i].dim_statuses[k] = StatusByRule(df, config, i, arg[k])
            /\ ret[i].total_level =
                  Cardinality({k \in 1..Len(arg) :
                      StatusByRule(df, config, i, arg[k]) \in {"empty", "marker"}})

\* C2 witness: a classification that met a missing dimension, a blank text, a
\* marker that matches only after trimming and lower-casing, and a value
C2_Witness ==
    /\ lastOp = "classify_rows"
    /\ \E i \in 1..Len(ret) : \E k \in 1..Len(arg) : ret[i].dim_statuses[k] = "missing"
    /\ \E i \in 1..Len(ret) : \E k \in 1..Len(arg) : ret[i].dim_statuses[k] = "value"
    /\ \E i \in 1..Len(ret) : \E k \in 1..Len(arg) :
          /\ ret[i].dim_statuses[k] = "empty"
          /\ arg[k] \in ColumnSet(df)
          /\ IsStr(df.rows[i][ColIndex(df, arg[k])])
    /\ \E i \in 1..Len(ret) : \E k \in 1..Len(arg) :
          /\ ret[i].dim_statuses[k] = "marker"
          /\ df.rows[i][ColIndex(df, arg[k])] \notin
                {Str(config.total_markers[m]) : m \in 1..Len(config.total_markers)}
          /\ ret[i].total_level < Len(arg)

\* float equality of two scores
FEq(a, b) == ~a.nan /\ ~b.nan /\ a.n * b.d = b.n * a.d /\ a.ulp = b.ulp

\* C3: classify_columns puts every column in exactly one of dims and measures,
\* in measures only when measure_score > dimension_score; equal scores make a
\* dimension.
C3_ClassificationTotal ==
    lastOp = "classify_columns" =>
        /\ SeqToSet(ret.dims) \cup SeqToSet(ret.measures) = ColumnSet(df)
        /\ SeqToSet(ret.dims) \cap SeqToSet(ret.measures) = {}
        /\ NoDuplicates(ret.dims \o ret.measures)
        /\ \A c \in ColumnSet(df) :
              /\ c \in SeqToSet(ret.measures) <=>
                    FGt(ComputeMeasureScore(df, c), ComputeDimensionScore(df, c))
              /\ FEq(ComputeMeasureScore(df, c), ComputeDimensionScore(df, c)) =>
                    c \in SeqToSet(ret.dims)

\* C3 witness: a classification with a measure, and a dimension whose two
\* scores are equal
C3_Witness ==
    /\ lastOp = "classify_columns"
    /\ ret.measures # <<>>
    /\ \E c \in SeqToSet(ret.dims) :
          /\ FEq(ComputeMeasureScore(df, c), ComputeDimensionScore(df, c))
          /\ FGt(ComputeMeasureScore(df, c), Float(0, 10))

\* a number in [0, 1]
InUnitInterval(x) == ~x.nan /\ 0 <= x.n /\ x.n <= x.d

\* C4 (as claimed): for every column of every table, a column without any
\* non-missing value and a table without rows included, dimension_score and
\* measure_score are numbers in [0, 1] and the confidence is the larger of the
\* two, hence in [0, 1].
C4_ScoresInUnitInterval ==
    lastOp = "classify_columns" =>
        \A c \in ColumnSet(df) :
            /\ InUnitInterval(ComputeDimensionScore(df, c))
            /\ InUnitInterval(ComputeMeasureScore(df, c))
            /\ InUnitInterval(ret.conf[c])
            /\ \/ FEq(ret.conf[c], ComputeDimensionScore(df, c))
               \/ FEq(ret.conf[c], ComputeMeasureScore(df, c))
            /\ ~FLt(ret.conf[c], ComputeDimensionScore(df, c))
            /\ ~FLt(ret.conf[c], ComputeMeasureScore(df, c))

\* C5: min_confidence never affects classification: classify_columns, and
\* clean(), run with any other threshold return the same dims, measures and
\* confidence scores; the threshold only selects the columns warned about.
C5_MinConfidenceOnlyWarns ==
    [][ /\ lastOp' = "classify_columns" =>
              /\ \A m \in MinConfidences :
                    \A other \in {ClassifyColumns(df, [config EXCEPT !.min_confidence = m])} :
                        /\ ret'.dims = other.dims
                        /\ ret'.measures = other.measures
                        /\ ret'.conf = other.conf
              /\ SeqToSet(ret'.warnings) =
                    {c \in ColumnSet(df) : FLt(ret'.conf[c], config.min_confidence)}
        /\ lastOp' = "clean" =>
              \A m \in MinConfidences :
                  \A other \in {Clean(df, [config EXCEPT !.min_confidence = m],
                                       detected_format).result} :
                      /\ ret'.raised = other.raised
                      /\ ~ret'.raised =>
                            /\ ret'.metadata.dimensions = other.metadata.dimensions
                            /\ ret'.metadata.measures = other.metadata.measures
                            /\ ret'.metadata.confidence_scores =
                                  other.metadata.confidence_scores
                            /\ ret'.detail = other.detail
                            /\ ret'.totals = other.totals
      ]_vars

\* C5 witness: a classification that warned about a column and still placed it
C5_Witness ==
    /\ lastOp = "classify_columns"
    /\ ret.warnings # <<>>
    /\ SeqToSet(ret.warnings) \subseteq SeqToSet(ret.dims) \cup SeqToSet(ret.measures)
    /\ \E c \in SeqToSet(ret.warnings) : c \in SeqToSet(ret.measures)

\* at most one distinct non-null value
AtMostOneValue(d, c) ==
    \A i, k \in 1..NRows(d) :
        LET j == ColIndex(d, c)
        IN  (~IsNull(d.rows[i][j]) /\ ~IsNull(d.rows[k][j])) => d.rows[i][j] = d.rows[k][j]

\* C6: identify_constant_columns returns exactly the columns of the current
\* table with at most one distinct non-null value (a column of missing values
\* only is one of them), and leaves the table as it was.
C6_ConstantColumnsExact ==
    [][ lastOp' = "identify_constant_columns" =>
            /\ SeqToSet(ret') = {c \in ColumnSet(df) : AtMostOneValue(df, c)}
            /\ NoDuplicates(ret')
            /\ df' = df
            /\ caller_df' = caller_df
      ]_vars

\* C6 witness: a result that holds a column without any value and a column
\* with one value next to missing ones, and leaves another column out
C6_Witness ==
    /\ lastOp = "identify_constant_columns"
    /\ \E c \in SeqToSet(ret) : NUnique(Column(df, c)) = 0 /\ NRows(df) > 1
    /\ \E c \in SeqToSet(ret) :
          /\ NUnique(Column(df, c)) = 1
          /\ \E i \in 1..NRows(df) : IsNull(df.rows[i][ColIndex(df, c)])
    /\ \E c \in ColumnSet(df) : c \notin SeqToSet(ret)

\* C7 (as claimed): in clean(), with keep_constants false every constant
\* column is absent from detail and from totals and dropped_columns lists
\* exactly the constant columns; with keep_constants true no column is removed
\* and dropped_columns is empty; original_columns and original_shape describe
\* the table as it was before any removal.
C7_ConstantColumnsDropped ==
    [][ (lastOp' = "clean" /\ ~ret'.raised) =>
            LET constant == {c \in ColumnSet(df) : AtMostOneValue(df, c)}
                meta == ret'.metadata
            IN  /\ meta.original_columns = df.cols
                /\ meta.original_shape = <<NRows(df), NCols(df)>>
                /\ ~config.keep_constants =>
                      /\ SeqToSet(meta.dropped_columns) = constant
                      /\ constant \cap ColumnSet(ret'.detail) = {}
                      /\ constant \cap ColumnSet(ret'.totals) = {}
                /\ config.keep_constants =>
                      /\ meta.dropped_columns = <<>>
                      /\ ColumnSet(df) \subseteq ColumnSet(ret'.detail)
                      /\ ColumnSet(df) \subseteq ColumnSet(ret'.totals)
      ]_vars

(***************************************************************************)
(* Claims about NumberParser (checked under SpecParser)                    *)
(***************************************************************************)
\* pattern (a) or (c): thousands-dot + decimal-comma, or short comma-decimal
MatchesCommaPattern(v) == MatchGrouped(v, ".", ",") \/ MatchShort(v, ",")
\* pattern (b) or (d): thousands-comma + decimal-dot, or short dot-decimal
MatchesDotPattern(v) == MatchGrouped(v, ",", ".") \/ MatchShort(v, ".")

\* the first 100 non-missing values of a column, as trimmed text
SampledTexts(series) ==
    LET present == DropNa(series.vals)
        n == IF Len(present) < SampleCap THEN Len(present) ELSE SampleCap
    IN  [i \in 1..n |-> Strip(AsStr(present[i], series.dtype = "float64"))]

CommaVotes(series) ==
    Cardinality({i \in 1..Len(SampledTexts(series)) :
                    MatchesCommaPattern(SampledTexts(series)[i])})
DotVotes(series) ==
    Cardinality({i \in 1..Len(SampledTexts(series)) :
                    MatchesDotPattern(SampledTexts(series)[i])})

\* C8: on a fresh parser detect_format returns (',', '.') exactly when the
\* values matching (a) or (c) among the first 100 non-missing trimmed values
\* strictly outnumber those matching (b) or (d), and ('.', ',') otherwise; a
\* non-empty sample matching only (a)/(c) gives (',', '.'), a sample matching
\* only (b)/(d) gives ('.', ',').
C8_DetectFormatVotes ==
    [][ (lastOp' = "detect_format" /\ detected_format = None) =>
            /\ ret' = IF CommaVotes(arg') > DotVotes(arg')
                      THEN CommaDecimal ELSE DotDecimal
            /\ (/\ Len(SampledTexts(arg')) > 0
                /\ CommaVotes(arg') = Len(SampledTexts(arg'))) => ret' = CommaDecimal
            /\ DotVotes(arg') = Len(SampledTexts(arg')) => ret' = DotDecimal
            /\ CommaVotes(arg') + DotVotes(arg') = 0 => ret' = DotDecimal
      ]_vars

\* C8 witness: a detection that stored its own result on a column whose
\* comma-decimal values all lie beyond the first 100 non-missing values
C8_Witness ==
    /\ lastOp = "detect_format"
    /\ Len(DropNa(arg.vals)) > SampleCap
    /\ CommaVotes(arg) = 0
    /\ \E i \in (SampleCap + 1)..Len(arg.vals) :
           IsStr(arg.vals[i]) /\ MatchesCommaPattern(Strip(arg.vals[i][2]))
    /\ ret = DotDecimal
    /\ detected_format = ret

\* C9: once an instance holds a hypothesis, no later detect_format,
\* parse_series or parse_number call changes it, and detect_format keeps
\* returning it.
C9_HypothesisImmutable ==
    [][ detected_format # None =>
            /\ detected_format' = detected_format
            /\ (lastOp' = "detect_format" => ret' = detected_format)
      ]_vars

\* C9 witness: detect_format has returned the stored hypothesis for a column
\* that on its own votes for the other one
C9_Witness ==
    /\ lastOp = "detect_format"
    /\ detected_format # None
    /\ ret = detected_format
    /\ VotedFormat(arg) # detected_format

\* the number a text stands for under a hypothesis: the thousands character
\* removed, the decimal character read as the decimal point
ParseUnderHypothesis(value, hypothesis) ==
    ParseNumber(value, hypothesis[1], hypothesis[2])

\* C10 (as claimed): once a hypothesis is fixed, every text parsed by the
\* instance (no explicit separators configured) is read under that hypothesis.
C10_ParsedUnderHypothesis ==
    (/\ detected_format # None
     /\ config.decimal = NoSep
     /\ config.thousands = NoSep) =>
        /\ (lastOp = "parse_number" /\ IsStr(arg)) =>
               ret = ParseUnderHypothesis(arg, detected_format)
        /\ (lastOp = "parse_series" /\ arg.dtype = "object") =>
               \A i \in 1..Len(arg.vals) :
                   ret.vals[i] = ParseUnderHypothesis(arg.vals[i], detected_format)

\* the text of a value after trimming and removal of percent signs, currency
\* symbols and whitespace
Decorated(value) ==
    SelectSeq(Strip(value[2]), LAMBDA c : c \notin StrippedChars)

FullyParenthesized(t) ==
    t # <<>> /\ t[1] = "(" /\ t[Len(t)] = ")"

StartsWithMinus(t) ==
    t # <<>> /\ t[1] = "-"

\* the text with its negative wrapper (parentheses or leading minus) removed
Unwrapped(t) ==
    IF FullyParenthesized(t) THEN Strip(SubSeq(t, 2, Len(t) - 1))
    ELSE IF StartsWithMinus(t) THEN Strip(Tail(t))
    ELSE t

\* a text value that is blank or one of the missing words in any case
IsMissingText(value) ==
    IsStr(value) /\ (Strip(value[2]) = <<>> \/ Lower(Strip(value[2])) \in MissingWords)

\* the float read from a cleaned text, negated when the value was marked
ReadFloat(t, negative) ==
    IF PyFloat(t) = <<"err">> THEN Null
    ELSE IF negative THEN Neg(PyFloat(t)) ELSE PyFloat(t)

\* a text read with the configured separators only: the configured thousands
\* separator stripped, the configured decimal separator turned into '.'
ExplicitRead(value, decimal, thousands) ==
    LET t == Unwrapped(Decorated(value))
        t1 == IF thousands # NoSep THEN Remove(t, thousands) ELSE t
        t2 == IF decimal # NoSep /\ decimal # "." THEN Replace(t1, decimal, ".") ELSE t1
    IN  IF IsMissingText(value) THEN Null
        ELSE ReadFloat(t2, FullyParenthesized(Decorated(value))
                           \/ StartsWithMinus(Decorated(value)))

\* C11 (as claimed): on a parser configured with a decimal separator, a
\* thousands separator or both, parse_series runs no detection and every text
\* is read with the configured separators only, never by the per-value
\* comma/dot heuristic.
C11_ExplicitSeparatorsOverride ==
    [][ (config.decimal # NoSep \/ config.thousands # NoSep) =>
            /\ (lastOp' = "parse_series" /\ arg'.dtype = "object") =>
                   /\ detected_format' = detected_format
                   /\ \A i \in 1..Len(arg'.vals) :
                          IsStr(arg'.vals[i]) =>
                              ret'.vals[i] = ExplicitRead(arg'.vals[i], config.decimal,
                                                          config.thousands)
            /\ (lastOp' = "parse_number" /\ IsStr(arg')) =>
                   ret' = ExplicitRead(arg', config.decimal, config.thousands)
      ]_vars

\* C11, both separators configured: the part of the claim the code keeps
C11_BothSeparatorsOverride ==
    [][ (config.decimal # NoSep /\ config.thousands # NoSep) =>
            /\ (lastOp' = "parse_series" /\ arg'.dtype = "object") =>
                   /\ detected_format' = detected_format
                   /\ \A i \in 1..Len(arg'.vals) :
                          IsStr(arg'.vals[i]) =>
                              ret'.vals[i] = ExplicitRead(arg'.vals[i], config.decimal,
                                                          config.thousands)
            /\ (lastOp' = "parse_number" /\ IsStr(arg')) =>
                   ret' = ExplicitRead(arg', config.decimal, config.thousands)
      ]_vars

\* a float or the missing sentinel
IsFloatOrMissing(c) ==
    IsNull(c) \/ IsNum(c) \/ c[1] = "inf"

\* a text without any digit that does not spell inf, infinity or nan
CannotBeNumber(value) ==
    /\ IsStr(value)
    /\ \A i \in 1..Len(value[2]) : value[2][i] \notin Digits
    /\ \A w \in {T_inf, T_infinity, T_nan} : ~IsSubstring(w, Lower(value[2]))

\* what C12 promises about one parse_number call
ParseNumberIsTotal(value, result) ==
    /\ ~IsRaised(result)
    /\ IsFloatOrMissing(result)
    /\ (value = None \/ IsNull(value) \/ IsMissingText(value)) => IsNull(result)
    /\ CannotBeNumber(value) => IsNull(result)

\* C12 (as claimed): parse_number never raises; for None, not-a-number, any
\* number and any text it returns a float or the missing sentinel; None,
\* not-a-number, blank text and the missing words in any case give the missing
\* sentinel, and so does text that cannot be read as a number.
C12_ParseNumberTotal ==
    lastOp = "parse_number" => ParseNumberIsTotal(arg, ret)

\* C12 on None, not-a-number, floats and text: the part the code keeps
C12_TotalExceptPythonInt ==
    (lastOp = "parse_number" /\ ~IsPyInt(arg)) => ParseNumberIsTotal(arg, ret)

\* the positions of a character in a text
Positions(t, c) == {i \in 1..Len(t) : t[i] = c}

\* the text with every c dropped, and with every c written as '.'
Without(t, c) == SelectSeq(t, LAMBDA x : x # c)
AsPoint(t, c) == [i \in 1..Len(t) |-> IF t[i] = c THEN "." ELSE t[i]]

\* the per-value rule of C13 on a cleaned text: with both characters the later
\* one is the decimal separator and the other is stripped; a lone comma with at
\* most 3 characters behind it is the decimal separator; other commas are
\* stripped
HeuristicText(t) ==
    LET commas == Positions(t, ",")
        dots == Positions(t, ".")
    IN  IF commas # {} /\ dots # {}
        THEN IF SetMax(commas) > SetMax(dots)
             THEN AsPoint(Without(t, "."), ",")
             ELSE Without(t, ",")
        ELSE IF Cardinality(commas) = 1 /\ Len(t) - SetMax(commas) <= 3
        THEN AsPoint(t, ",")
        ELSE Without(t, ",")

HeuristicRead(value) ==
    IF IsMissingText(value) THEN Null
    ELSE ReadFloat(HeuristicText(Unwrapped(Decorated(value))),
                   FullyParenthesized(Decorated(value)) \/ StartsWithMinus(Decorated(value)))

\* the column of scenario 1 and its reading
ScenarioOneColumn == <<Str(T_grouped_comma), Str(T_grouped_comma2)>>
ScenarioOneParsed == << <<"num", 123456, 2>>, <<"num", 2000, 0>> >>

\* C13: without explicit separators every text is read by the per-value rule
\* (later of ',' and '.' is the decimal separator, the other stripped; a lone
\* comma followed by at most 3 characters is the decimal separator, commas are
\* stripped otherwise), and ['1.234,56', '2.000,00'] parses through
\* parse_series to [1234.56, 2000.00].
C13_SeparatorHeuristic ==
    (config.decimal = NoSep /\ config.thousands = NoSep) =>
        /\ (lastOp = "parse_number" /\ IsStr(arg)) => ret = HeuristicRead(arg)
        /\ (lastOp = "parse_series" /\ arg.dtype = "object") =>
               /\ \A i \in 1..Len(arg.vals) :
                      IsStr(arg.vals[i]) => ret.vals[i] = HeuristicRead(arg.vals[i])
               /\ arg.vals = ScenarioOneColumn => ret.vals = ScenarioOneParsed

\* C13 witness: parse_series has read the column of scenario 1 on a parser
\* without separators, and detection stored the comma-decimal hypothesis
C13_Witness ==
    /\ lastOp = "parse_series"
    /\ config.decimal = NoSep /\ config.thousands = NoSep
    /\ arg.vals = ScenarioOneColumn
    /\ ret.vals = ScenarioOneParsed
    /\ detected_format = CommaDecimal

\* a text that, once trimmed and freed of symbols and whitespace, is fully
\* parenthesized or starts with a minus sign
MarkedNegative(value) ==
    IsStr(value) /\ ~IsMissingText(value)
    /\ (FullyParenthesized(Decorated(value)) \/ StartsWithMinus(Decorated(value)))

\* a float that is not a positive number
NotPositive(c) ==
    (IsNum(c) => c[2] <= 0) /\ (c[1] = "inf" => c[2])

\* C14 (as claimed): whenever parse_number succeeds on a text that is fully
\* parenthesized or starts with a minus sign (after removal of currency
\* symbols, percent signs and whitespace) the result is not positive, and
\* '(1,234.50)' parses to -1234.50 when no separators are configured.
C14_NegativeNeverPositive ==
    lastOp = "parse_number" =>
        /\ (MarkedNegative(arg) /\ ~IsNull(ret)) => NotPositive(ret)
        /\ (arg = Str(T_paren) /\ config.decimal = NoSep /\ config.thousands = NoSep) =>
               ret = <<"num", -12345, 1>>

\* C14, texts whose unwrapped remainder carries no sign of its own: the part
\* the code keeps
C14_SingleWrapperNotPositive ==
    lastOp = "parse_number" =>
        /\ (/\ MarkedNegative(arg)
            /\ ~StartsWithMinus(Unwrapped(Decorated(arg)))
            /\ ~IsNull(ret)) => NotPositive(ret)
        /\ (arg = Str(T_paren) /\ config.decimal = NoSep /\ config.thousands = NoSep) =>
               ret = <<"num", -12345, 1>>

\* C15: parse_number is idempotent on its results: called on the number (or
\* the missing sentinel) it has just returned, it returns that same value.
C15_ParseNumberIdempotent ==
    lastOp = "parse_number_on_result" => ret = arg

\* C15 witness: a text was parsed to a fractional number, and parse_number
\* called on that number has returned it
C15_Witness ==
    /\ lastOp = "parse_number_on_result"
    /\ IsNum(arg) /\ arg[3] > 0 /\ arg[2] < 0
    /\ ret = arg

\* the number of times a label occurs in an index
Occurrences(index, label) ==
    Cardinality({k \in 1..Len(index) : index[k] = label})

\* the index labels of the rows of a table whose _row_type is (is not) 'detail',
\* in table order
LabelsWhere(d, isDetail) ==
    LET j == ColIndex(d, RowTypeColumn)
        keep == SelectSeq([i \in 1..NRows(d) |-> i],
                          LAMBDA i : (d.rows[i][j] = Str(T_detail)) = isDetail)
    IN  [k \in 1..Len(keep) |-> d.index[keep[k]]]

\* a count of row_type_counts (a type that does not occur has no entry)
CountOf(counts, row_type) ==
    IF row_type \in DOMAIN counts THEN counts[row_type] ELSE 0

\* C16: a clean() that returns partitions the rows of the table it started
\* from: every row is in exactly one of detail and totals; detail holds exactly
\* the rows classified 'detail', in table order and without the two helper
\* columns; totals holds exactly the other rows with both helper columns; the
\* values of row_type_counts sum to the row count and its 'detail' count is the
\* number of detail rows.
C16_RowsPartitioned ==
    [][ (lastOp' = "clean" /\ ~ret'.raised) =>
            /\ \A i \in 1..NRows(df) :
                   Occurrences(ret'.detail.index, df.index[i])
                     + Occurrences(ret'.totals.index, df.index[i]) = 1
            /\ NRows(ret'.detail) + NRows(ret'.totals) = NRows(df)
            /\ ret'.detail.index = LabelsWhere(df', TRUE)
            /\ ret'.totals.index = LabelsWhere(df', FALSE)
            /\ ColumnSet(ret'.detail) \cap {RowTypeColumn, TotalLevelColumn} = {}
            /\ {RowTypeColumn, TotalLevelColumn} \subseteq ColumnSet(ret'.totals)
            /\ \A i \in 1..NRows(ret'.totals) :
                   ret'.totals.rows[i][ColIndex(ret'.totals, RowTypeColumn)]
                       \in {Str(T_subtotal), Str(T_grand_total)}
            /\ CountOf(ret'.metadata.row_type_counts, "detail")
                 + CountOf(ret'.metadata.row_type_counts, "subtotal")
                 + CountOf(ret'.metadata.row_type_counts, "grand_total") = NRows(df)
            /\ CountOf(ret'.metadata.row_type_counts, "detail") = NRows(ret'.detail)
      ]_vars

\* C16 witness: a clean() returned detail rows and total rows, with a total row
\* standing between two detail rows of the table
C16_Witness ==
    /\ lastOp = "clean"
    /\ ~ret.raised
    /\ NRows(ret.detail) >= 1
    /\ NRows(ret.totals) >= 1
    /\ \E i \in 1..NRows(ret.detail) : \E k \in 1..NRows(ret.totals) :
           ret.detail.index[i] > ret.totals.index[k]
    /\ \E i \in 1..NRows(ret.detail) : \E k \in 1..NRows(ret.totals) :
           ret.detail.index[i] < ret.totals.index[k]

\* C17 (as claimed): clean() never aborts: for every table (without rows, with
\* one row, with constant columns only) and every configuration (dims or
\* measures naming absent columns included) it returns a result.
C17_CleanNeverAborts ==
    lastOp = "clean" => ~ret.raised

\* C17, tables with at least one row: the part the code keeps
C17_AbortsOnlyWithoutRows ==
    (lastOp = "clean" /\ ret.raised) => NRows(df) = 0

\* the table the classifier of a clean() sees: the table clean() started from
\* without the columns it reports as dropped
ClassifierTable(d, result) ==
    DropColumns(d, SeqToSet(result.metadata.dropped_columns))

\* C18: in a clean() that returns, a configured list replaces the inferred one
\* independently: only dims configured gives the configured dims and the
\* classifier's measures; only measures configured gives the classifier's dims
\* and the configured measures; both configured gives both lists as given and
\* an empty confidence map; none configured gives both lists of the classifier.
C18_ExplicitListsOverride ==
    [][ (lastOp' = "clean" /\ ~ret'.raised) =>
            \A c \in {ClassifyColumns(ClassifierTable(df, ret'), config)} :
                /\ ret'.metadata.dimensions =
                       IF config.dims # <<>> THEN config.dims ELSE c.dims
                /\ ret'.metadata.measures =
                       IF config.measures # <<>> THEN config.measures ELSE c.measures
                /\ ret'.metadata.confidence_scores =
                       IF config.dims # <<>> /\ config.measures # <<>> THEN <<>> ELSE c.conf
      ]_vars

\* C18 witness: a clean() configured with dims only (one of them absent from
\* the table) returned the configured dims together with inferred measures
C18_Witness ==
    /\ lastOp = "clean"
    /\ ~ret.raised
    /\ config.dims # <<>> /\ config.measures = <<>>
    /\ ret.metadata.dimensions = config.dims
    /\ \E k \in 1..Len(config.dims) : ~HasColumn(df, config.dims[k])
    /\ ret.metadata.measures # <<>>

\* every column of a table is in exactly one of two lists, each column once
ListedExactlyOnce(d, dims, measures) ==
    \A j \in 1..NCols(d) :
        Occurrences(dims, d.cols[j]) + Occurrences(measures, d.cols[j]) = 1

\* C19 (as claimed): in every result of a clean() in which the classifier was
\* run (dims and measures not both configured), every column kept in the table
\* is listed in exactly one of metadata.dimensions and metadata.measures.
C19_KeptColumnsListedOnce ==
    [][ (/\ lastOp' = "clean"
         /\ ~ret'.raised
         /\ (config.dims = <<>> \/ config.measures = <<>>)) =>
            ListedExactlyOnce(ClassifierTable(df, ret'),
                              ret'.metadata.dimensions, ret'.metadata.measures)
      ]_vars

\* C19 (amended): in every result of a clean() configured with neither dims
\* nor measures, every column kept in the table is listed in exactly one of
\* metadata.dimensions and metadata.measures, and nothing else is listed.
C19_InferredListsPartition ==
    [][ (/\ lastOp' = "clean"
         /\ ~ret'.raised
         /\ config.dims = <<>>
         /\ config.measures = <<>>) =>
            /\ ListedExactlyOnce(ClassifierTable(df, ret'),
                                 ret'.metadata.dimensions, ret'.metadata.measures)
            /\ SeqToSet(ret'.metadata.dimensions) \cup SeqToSet(ret'.metadata.measures)
                   = ColumnSet(ClassifierTable(df, ret'))
      ]_vars

\* C19 witness: a clean() configured with neither list returned a result that
\* lists dimensions and measures, after dropping a constant column
C19_Witness ==
    /\ lastOp = "clean"
    /\ ~ret.raised
    /\ config.dims = <<>> /\ config.measures = <<>>
    /\ ret.metadata.dimensions # <<>>
    /\ ret.metadata.measures # <<>>
    /\ ret.metadata.dropped_columns # <<>>

\* C20 (as claimed): when clean() parses several non-numeric measure columns,
\* the hypothesis held by the parser for each of them is the one detect_format
\* returns on a fresh parser for that column's own values; a hypothesis
\* detected on an earlier column is never reused for a later one.
C20_HypothesisPerColumn ==
    [][ (/\ lastOp' = "clean"
         /\ config.decimal = NoSep
         /\ config.thousands = NoSep) =>
            \A r \in {Clean(df, config, detected_format)} :
                \A k \in 1..Len(r.parse_log) :
                    ~IsNumericDtype(r.parse_log[k].series.dtype) =>
                        r.parse_log[k].hypothesis
                            = DetectFormat(None, r.parse_log[k].series)
      ]_vars

\* C20, the first text column parsed by a fresh cleaner: the part the code
\* keeps
C20_FirstColumnOwnHypothesis ==
    [][ (/\ lastOp' = "clean"
         /\ detected_format = None
         /\ config.decimal = NoSep
         /\ config.thousands = NoSep) =>
            \A r \in {Clean(df, config, detected_format)} :
                \A k \in 1..Len(r.parse_log) :
                    (/\ ~IsNumericDtype(r.parse_log[k].series.dtype)
                     /\ \A j \in 1..(k - 1) :
                            IsNumericDtype(r.parse_log[j].series.dtype)) =>
                        r.parse_log[k].hypothesis
                            = DetectFormat(None, r.parse_log[k].series)
      ]_vars

(***************************************************************************)
(* Claims about the stages of clean() (checked under SpecStages)           *)
(***************************************************************************)
\* a call that has ended, stage by stage, has done what clean() does at once
StagesAgreeWithClean ==
    pc \in {"Profiled", "Raised"} =>
        \A r \in {Clean(locals.entry, config, locals.entry_detected)} :
            /\ ret = r.result
            /\ df = r.df
            /\ detected_format = r.detected

\* the stage that follows a stage of the list
FollowsInOrder(from, to) ==
    \E k \in 1..(Len(Stages) - 1) : from = Stages[k] /\ to = Stages[k + 1]

\* what the stages work on: the before-profile is that of the table the call
\* was entered with, the resolved lists and the row classification come from
\* the table left by constant removal, the parser is not used before the
\* split, and the after-profile is that of the detail table returned
StagesSeeTheirInputs ==
    /\ pc \notin {"idle", "Raw"} =>
           locals.profile_before = ProfileDataframe(locals.entry)
    /\ pc \notin {"idle", "Raw", "ConstantsRemoved"} =>
           \A kept \in {DropColumns(locals.entry, SeqToSet(locals.dropped))} :
               /\ locals.resolved = ResolveColumns(kept, config)
               /\ pc \in {"RowsClassified", "Split", "MeasuresParsed", "Optimized", "Profiled"} =>
                      locals.rc = ClassifyRows(kept, config, locals.resolved.dims)
    /\ pc \in {"Raw", "ConstantsRemoved", "Classified", "RowsClassified", "Split"} =>
           detected_format = locals.entry_detected
    /\ pc = "Split" =>
           \A raw \in {DetailRows(df, ColIndex(df, RowTypeColumn))} :
               locals.detail = raw
    /\ pc = "Profiled" =>
           /\ ret.metadata.profile_before = ProfileDataframe(locals.entry)
           /\ ret.metadata.profile_after = ProfileDataframe(ret.detail)
           /\ ret.detail = OptimizeDtypes(locals.parsed.df)

\* C21 (as claimed): a clean() call passes through Raw, ConstantsRemoved,
\* Classified, RowsClassified, Split, MeasuresParsed, Optimized, Profiled in
\* that order, each once, and ends nowhere else; every stage works on the
\* table the claim names.
C21_StagesInOrder ==
    /\ [][pc' # pc =>
              \/ pc' = "Raw" /\ pc \in {"idle", "Profiled"}
              \/ FollowsInOrder(pc, pc')]_vars
    /\ []StagesSeeTheirInputs

\* C21, calls on a table with at least one row: the part the code keeps
C21_StagesInOrderWithRows ==
    /\ [][(pc' # pc /\ (pc # "idle" => NRows(locals.entry) > 0)) =>
              \/ pc' = "Raw" /\ pc \in {"idle", "Profiled"}
              \/ FollowsInOrder(pc, pc')]_vars
    /\ []StagesSeeTheirInputs

\* a call on a table without rows has ended at row classification
C21_EndsAtRowClassification ==
    /\ pc = "Raised"
    /\ NRows(locals.entry) = 0
    /\ ret = [raised |-> TRUE, error |-> "KeyError"]

\* the cell a table had at entry of clean() in the row labelled label
InputCell(entry, label, name) ==
    entry.rows[CHOOSE i \in 1..NRows(entry) : entry.index[i] = label][ColIndex(entry, name)]

\* every cell of the named columns of t is the cell the input had there
KeepsInputValues(t, entry, names) ==
    \A name \in names : \A i \in 1..NRows(t) :
        t.rows[i][ColIndex(t, name)] = InputCell(entry, t.index[i], name)

HelperColumns == {RowTypeColumn, TotalLevelColumn}

\* the columns of detail that are not named in the resolved measure list
NonMeasureColumns == ColumnSet(locals.detail) \ SeqToSet(locals.resolved.measures)

SameOutcome(first, second) ==
    /\ second.detail.rows = first.detail.rows
    /\ second.totals.rows = first.totals.rows
    /\ second.metadata.original_columns = first.metadata.original_columns

\* C23 (as claimed): clean() leaves the table object the caller handed to
\* TableCleaner as it was, columns and cells, whether or not a constant column
\* was dropped, and a second clean() right after a first on the same
\* TableCleaner returns the same detail rows, totals rows and original_columns.
C23_CallerTableUnmodified ==
    [][ lastOp' = "clean" /\ calls' = calls + 1 =>
            /\ caller_df' = caller_df
            /\ (lastOp = "clean" /\ ~ret.raised /\ ~ret'.raised) =>
                   SameOutcome(ret, ret')
      ]_vars

\* C23, the part the code keeps: once self.df has been rebound by a drop of
\* constant columns (line 213), clean() no longer writes to the caller's table
C23_UnmodifiedOnceRebound ==
    [][ lastOp' = "clean" /\ calls' = calls + 1 /\ ~shared' =>
            caller_df' = caller_df
      ]_vars

\* a clean() that dropped no column has written both helper columns into the
\* caller's table
C23_HelperColumnsInCallerTable ==
    /\ lastOp = "clean"
    /\ shared
    /\ ~ret.raised
    /\ HelperColumns \subseteq ColumnSet(caller_df)
    /\ HelperColumns \cap SeqToSet(ret.metadata.original_columns) = {}

(***************************************************************************)
(* Row classification with a dimension the table lacks (under SpecStages)  *)
(***************************************************************************)
\* a name of dims is no column of the table
MissingDimension(d, dims) == \E k \in 1..Len(dims) : ~HasColumn(d, dims[k])

\* the dimensions of dims that are empty or a marker in row i
FlaggedDimensions(d, cfg, i, dims) ==
    {k \in 1..Len(dims) : StatusByRule(d, cfg, i, dims[k]) \in {"empty", "marker"}}

\* the dimensions of dims that are columns of the table
PresentDimensions(d, dims) == {k \in 1..Len(dims) : HasColumn(d, dims[k])}

\* C24: when a name of the resolved dimension list is no column of the table
\* that rows are classified on (absent from the input or dropped as constant),
\* a row is 'detail' if none of the present dimensions is empty or a marker and
\* 'subtotal' otherwise; no row is 'grand_total', in the classification, in
\* row_type_counts or in the totals returned.
C24_NoGrandTotalWithMissingDimension ==
    pc \in {"RowsClassified", "Split", "MeasuresParsed", "Optimized", "Profiled"} =>
        \A kept \in {DropColumns(locals.entry, SeqToSet(locals.dropped))} :
            MissingDimension(kept, locals.resolved.dims) =>
                /\ \A i \in 1..NRows(kept) :
                       locals.rc[i].row_type =
                           IF FlaggedDimensions(kept, config, i, locals.resolved.dims) = {}
                           THEN "detail" ELSE "subtotal"
                /\ \A i \in 1..NRows(df) :
                       df.rows[i][ColIndex(df, RowTypeColumn)]
                           \in {Str(T_detail), Str(T_subtotal)}
                /\ pc = "Profiled" =>
                       /\ CountOf(ret.metadata.row_type_counts, "grand_total") = 0
                       /\ \A i \in 1..NRows(ret.totals) :
                              ret.totals.rows[i][ColIndex(ret.totals, RowTypeColumn)]
                                  = Str(T_subtotal)

\* C24 witness: clean() returned with a resolved dimension missing from the
\* table, and a row whose present dimensions are all empty or markers is a
\* subtotal
C24_Witness ==
    /\ pc = "Profiled"
    /\ \E kept \in {DropColumns(locals.entry, SeqToSet(locals.dropped))} :
          /\ MissingDimension(kept, locals.resolved.dims)
          /\ \E i \in 1..NRows(kept) :
                /\ PresentDimensions(kept, locals.resolved.dims) # {}
                /\ FlaggedDimensions(kept, config, i, locals.resolved.dims)
                     = PresentDimensions(kept, locals.resolved.dims)
                /\ locals.rc[i].row_type = "subtotal"
    /\ NRows(ret.totals) > 0

====
